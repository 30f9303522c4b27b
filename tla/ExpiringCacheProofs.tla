-------------------------- MODULE ExpiringCacheProofs --------------------------
(* Theorems about ExpiringCache, for every number of threads and keys.      *)
EXTENDS ExpiringCache, TLAPS

(***************************************************************************)
(* The inductive invariant.                                                *)
(***************************************************************************)
\* No instant that was recorded lies in the future.
ClockOK ==
    /\ lastCleanup <= now
    /\ \A t \in Threads : started[t] <= now

\* What is in the cache is what was last created, for as long as it was to be
\* kept; what is not there, or is being created again, is over.
HistoryOK ==
    /\ \A k \in Keys :
          cache[k] # None =>
              /\ born[k] # None
              /\ cache[k].value = born[k].value
              /\ born[k].lifetime = None => cache[k].expiration = None
              /\ born[k].lifetime # None =>
                    cache[k].expiration = born[k].at + born[k].lifetime
    /\ \A k \in Keys : cache[k] = None /\ born[k] # None => Elapsed(born[k])
    /\ \A t \in Threads :
          call[t].at = "create" /\ born[call[t].key] # None =>
              Elapsed(born[call[t].key])

IInv == TypeOK /\ HolderInside /\ ClockOK /\ HistoryOK /\ NoLingering

(***************************************************************************)
(* Lemmas about the helpers.                                               *)
(***************************************************************************)
LEMMA ExpirationType ==
    ASSUME now \in Nat, NEW d \in Lifetimes
    PROVE  /\ Expiration(d) \in Nat \cup {None}
           /\ Expiration(d) # None => Expiration(d) >= now
<1>1. CASE d = None
    BY <1>1 DEF Expiration
<1>2. CASE d # None
    <2>1. d \in Nat /\ Expiration(d) = now + d
        BY <1>2, LifetimesAssumption DEF Expiration
    <2> QED
        BY <2>1
<1> QED
    BY <1>1, <1>2

LEMMA CallTypes ==
    /\ \A o \in Outcomes, v \in Values \cup {None} : Idle(o, v) \in Call
    /\ \A p \in Phases, k \in Keys \cup {None} : Busy(p, k) \in Call
BY DEF Idle, Busy, Call, Outcomes, Phases

(***************************************************************************)
(* Type correctness.                                                       *)
(***************************************************************************)
LEMMA InitType == Init => TypeOK
<1> SUFFICES ASSUME Init PROVE TypeOK
    OBVIOUS
<1>1. Idle("none", None) \in Call /\ Idle("none", None).at = "idle"
    BY DEF Idle, Call, Outcomes, Phases
<1>2. call \in [Threads -> Call] /\ \A t \in Threads : call[t].at = "idle"
    BY <1>1 DEF Init
<1> QED
    BY <1>2 DEF Init, TypeOK

LEMMA NextType == TypeOK /\ [Next]_vars => TypeOK'
<1> SUFFICES ASSUME TypeOK, [Next]_vars PROVE TypeOK'
    OBVIOUS
<1> USE DEF TypeOK
<1>1. CASE UNCHANGED vars
    BY <1>1 DEF vars
<1>2. CASE Tick
    BY <1>2 DEF Tick
<1>3. ASSUME NEW t \in Threads, NEW interval \in Intervals, StartClear(t, interval)
      PROVE TypeOK'
    BY <1>3, CallTypes DEF StartClear, Busy, Phases
<1>4. ASSUME NEW t \in Threads, NEW k \in Keys, NEW d \in Lifetimes, StartGet(t, k, d)
      PROVE TypeOK'
    BY <1>4, CallTypes DEF StartGet, Busy, Phases
<1>5. ASSUME NEW t \in Threads, SweepLock(t)
      PROVE TypeOK'
    BY <1>5 DEF SweepLock, Call, Phases
<1>6. ASSUME NEW t \in Threads, NEW removed \in SUBSET Keys, SweepDone(t, removed)
      PROVE TypeOK'
    BY <1>6, CallTypes DEF SweepDone, Idle, Outcomes
<1>7. ASSUME NEW t \in Threads, Hit(t)
      PROVE TypeOK'
    <2>1. cache[call[t].key].value \in Values
        BY <1>7 DEF Hit, CacheValue
    <2> QED
        BY <1>7, <2>1, CallTypes DEF Hit, Idle, Outcomes
<1>8. ASSUME NEW t \in Threads, Miss(t)
      PROVE TypeOK'
    BY <1>8, CallTypes DEF Miss, Busy, Phases
<1>9. ASSUME NEW t \in Threads, NEW v \in Values, CreateOk(t, v)
      PROVE TypeOK'
    <2>1. lifetime[t] \in Lifetimes /\ call[t].key \in Keys
        BY <1>9 DEF CreateOk
    <2>2. [value |-> v, expiration |-> Expiration(lifetime[t])] \in CacheValue
        BY <2>1, ExpirationType DEF CacheValue
    <2>3. [value |-> v, at |-> now, lifetime |-> lifetime[t], by |-> t] \in Birth
        BY <2>1 DEF Birth
    <2>4. cache' \in [Keys -> CacheValue \cup {None}]
        BY <1>9, <2>2 DEF CreateOk
    <2>5. born' \in [Keys -> Birth \cup {None}]
        BY <1>9, <2>3 DEF CreateOk
    <2> QED
        BY <1>9, <2>4, <2>5, CallTypes DEF CreateOk, Idle, Outcomes
<1>10. ASSUME NEW t \in Threads, CreateErr(t)
       PROVE TypeOK'
    BY <1>10, CallTypes DEF CreateErr, Idle, Outcomes
<1>11. ASSUME NEW t \in Threads, CreatePanic(t)
       PROVE TypeOK'
    BY <1>11, CallTypes DEF CreatePanic, Idle, Outcomes
<1>12. ASSUME NEW t \in Threads, Reject(t)
       PROVE TypeOK'
    BY <1>12, CallTypes DEF Reject, Idle, Outcomes
<1> QED
    BY <1>1, <1>2, <1>3, <1>4, <1>5, <1>6, <1>7, <1>8, <1>9, <1>10, <1>11, <1>12
       DEF Next, Proceed

(***************************************************************************)
(* The mutex: who holds it is who runs inside it.                          *)
(***************************************************************************)
LEMMA NextHolder == TypeOK /\ HolderInside /\ [Next]_vars => HolderInside'
<1> SUFFICES ASSUME TypeOK, HolderInside, [Next]_vars PROVE HolderInside'
    OBVIOUS
<1> USE NoneAssumption DEF TypeOK, HolderInside
<1>1. CASE UNCHANGED vars
    BY <1>1 DEF vars
<1>2. CASE Tick
    BY <1>2 DEF Tick
<1>3. ASSUME NEW t \in Threads, NEW interval \in Intervals, StartClear(t, interval)
      PROVE HolderInside'
    BY <1>3 DEF StartClear, Busy
<1>4. ASSUME NEW t \in Threads, NEW k \in Keys, NEW d \in Lifetimes, StartGet(t, k, d)
      PROVE HolderInside'
    BY <1>4 DEF StartGet, Busy
<1>5. ASSUME NEW t \in Threads, SweepLock(t)
      PROVE HolderInside'
    BY <1>5 DEF SweepLock, Busy
<1>6. ASSUME NEW t \in Threads, NEW removed \in SUBSET Keys, SweepDone(t, removed)
      PROVE HolderInside'
    BY <1>6 DEF SweepDone, Idle
<1>7. ASSUME NEW t \in Threads, Hit(t)
      PROVE HolderInside'
    BY <1>7 DEF Hit, Idle
<1>8. ASSUME NEW t \in Threads, Miss(t)
      PROVE HolderInside'
    BY <1>8 DEF Miss, Busy
<1>9. ASSUME NEW t \in Threads, NEW v \in Values, CreateOk(t, v)
      PROVE HolderInside'
    BY <1>9 DEF CreateOk, Idle
<1>10. ASSUME NEW t \in Threads, CreateErr(t)
       PROVE HolderInside'
    BY <1>10 DEF CreateErr, Idle
<1>11. ASSUME NEW t \in Threads, CreatePanic(t)
       PROVE HolderInside'
    BY <1>11 DEF CreatePanic, Idle
<1>12. ASSUME NEW t \in Threads, Reject(t)
       PROVE HolderInside'
    BY <1>12 DEF Reject, Idle
<1> QED
    BY <1>1, <1>2, <1>3, <1>4, <1>5, <1>6, <1>7, <1>8, <1>9, <1>10, <1>11, <1>12
       DEF Next, Proceed

(***************************************************************************)
(* The clock.                                                              *)
(***************************************************************************)
LEMMA NextClock == TypeOK /\ ClockOK /\ [Next]_vars => ClockOK'
<1> SUFFICES ASSUME TypeOK, ClockOK, [Next]_vars PROVE ClockOK'
    OBVIOUS
<1> USE DEF TypeOK, ClockOK
<1>1. ASSUME NEW t \in Threads, SweepLock(t)
      PROVE ClockOK'
    BY <1>1 DEF SweepLock
<1>2. ASSUME NEW t \in Threads, NEW removed \in SUBSET Keys, SweepDone(t, removed)
      PROVE ClockOK'
    BY <1>2 DEF SweepDone
<1>3. ASSUME NEW t \in Threads, NEW interval \in Intervals, StartClear(t, interval)
      PROVE ClockOK'
    BY <1>3 DEF StartClear
<1>4. CASE Tick
    BY <1>4 DEF Tick
<1>5. CASE UNCHANGED <<lastCleanup, now, started>>
    BY <1>5
<1>6. ASSUME NEW t \in Threads
      PROVE /\ \A k \in Keys, d \in Lifetimes :
                  StartGet(t, k, d) => UNCHANGED <<lastCleanup, now, started>>
            /\ \A v \in Values : CreateOk(t, v) => UNCHANGED <<lastCleanup, now, started>>
            /\ Hit(t) \/ Miss(t) \/ CreateErr(t) \/ CreatePanic(t) \/ Reject(t)
                  => UNCHANGED <<lastCleanup, now, started>>
    BY DEF StartGet, CreateOk, Hit, Miss, CreateErr, CreatePanic, Reject
<1> QED
    BY <1>1, <1>2, <1>3, <1>4, <1>5, <1>6 DEF Next, Proceed, vars

(***************************************************************************)
(* The history.                                                            *)
(***************************************************************************)
\* What is over stays over.
LEMMA ElapsedStays ==
    ASSUME now \in Nat, now' \in Nat, now <= now', NEW b \in Birth, Elapsed(b)
    PROVE  Elapsed(b)'
<1>1. b.lifetime # None /\ b.at \in Nat /\ b.lifetime \in Nat
    BY LifetimesAssumption DEF Elapsed, Birth
<1>2. b.at + b.lifetime <= now
    BY DEF Elapsed
<1> QED
    BY <1>1, <1>2 DEF Elapsed

\* A sweep and a creator find only entries whose lifetime is over.
LEMMA NotValidElapsed ==
    ASSUME TypeOK, HistoryOK, NEW k \in Keys, born[k] # None,
           cache[k] = None \/ ~IsValid(cache[k])
    PROVE  Elapsed(born[k])
<1>1. CASE cache[k] = None
    BY <1>1 DEF HistoryOK
<1>2. CASE cache[k] # None
    <2>1. cache[k].expiration \in Nat /\ now >= cache[k].expiration
        BY <1>2 DEF IsValid, TypeOK, CacheValue
    <2>2. born[k] \in Birth /\ cache[k].expiration = born[k].at + born[k].lifetime
        BY <1>2, <2>1, NoneAssumption DEF HistoryOK, TypeOK
    <2> QED
        BY <1>2, <2>1, <2>2, NoneAssumption DEF HistoryOK, Elapsed
<1> QED
    BY <1>1, <1>2

LEMMA NextHistory ==
    TypeOK /\ HolderInside /\ HistoryOK /\ [Next]_vars => HistoryOK'
<1> SUFFICES ASSUME TypeOK, HolderInside, HistoryOK, [Next]_vars PROVE HistoryOK'
    OBVIOUS
<1>0. TypeOK'
    BY NextType
<1>1. CASE Tick
    <2>1. now' \in Nat /\ now <= now' /\ UNCHANGED <<cache, call, born>>
        BY <1>1 DEF Tick, TypeOK
    <2>2. \A b \in Birth : Elapsed(b) => Elapsed(b)'
        BY <2>1, ElapsedStays DEF TypeOK
    <2> QED
        BY <2>1, <2>2 DEF HistoryOK, TypeOK, Elapsed
<1>2. ASSUME NEW t \in Threads, NEW removed \in SUBSET Keys, SweepDone(t, removed)
      PROVE HistoryOK'
    <2>1. \A k \in removed : cache[k] # None /\ ~IsValid(cache[k])
        BY <1>2 DEF SweepDone, ExpiredAt, IsValid, TypeOK, CacheValue
    <2>2. \A k \in removed : born[k] # None => Elapsed(born[k])
        BY <2>1, NotValidElapsed
    <2> QED
        BY <1>2, <2>2 DEF SweepDone, HistoryOK, Elapsed, Idle, TypeOK
<1>3. ASSUME NEW t \in Threads, Miss(t)
      PROVE HistoryOK'
    <2>1. call[t].key \in Keys /\ born[call[t].key] # None => Elapsed(born[call[t].key])
        BY <1>3, NotValidElapsed DEF Miss, TypeOK
    <2> QED
        BY <1>3, <2>1 DEF Miss, HistoryOK, Elapsed, Busy, TypeOK
<1>4. ASSUME NEW t \in Threads, NEW v \in Values, CreateOk(t, v)
      PROVE HistoryOK'
    <2> DEFINE k == call[t].key
               d == lifetime[t]
               b == [value |-> v, at |-> now, lifetime |-> d, by |-> t]
               e == [value |-> v, expiration |-> Expiration(d)]
    <2>1. k \in Keys /\ d \in Lifetimes /\ b # None /\ e # None
        BY <1>4, EntryAssumption, ExpirationType DEF CreateOk, TypeOK
    <2>2. /\ cache' = [cache EXCEPT ![k] = e]
          /\ born' = [born EXCEPT ![k] = b]
          /\ now' = now
        BY <1>4 DEF CreateOk
    <2>3. \A u \in Threads : call'[u].at # "create"
        BY <1>4, NoneAssumption DEF CreateOk, HolderInside, TypeOK, Idle
    <2>4. ASSUME NEW j \in Keys, cache'[j] # None
          PROVE  /\ born'[j] # None
                 /\ cache'[j].value = born'[j].value
                 /\ born'[j].lifetime = None => cache'[j].expiration = None
                 /\ born'[j].lifetime # None =>
                        cache'[j].expiration = born'[j].at + born'[j].lifetime
        BY <2>1, <2>2, <2>4 DEF HistoryOK, TypeOK, Expiration
    <2>5. ASSUME NEW j \in Keys, cache'[j] = None, born'[j] # None
          PROVE  Elapsed(born[j])'
        BY <2>1, <2>2, <2>5 DEF HistoryOK, TypeOK, Elapsed
    <2> QED
        BY <2>3, <2>4, <2>5 DEF HistoryOK
<1>5. ASSUME UNCHANGED <<cache, born, now>>,
             NEW t \in Threads, NEW c \in Call, c.at # "create",
             call' = [call EXCEPT ![t] = c]
      PROVE  HistoryOK'
    BY <1>5 DEF HistoryOK, Elapsed, TypeOK
<1>6. CASE UNCHANGED vars
    BY <1>6 DEF vars, HistoryOK, Elapsed
<1>7. ASSUME NEW t \in Threads, NEW interval \in Intervals, StartClear(t, interval)
      PROVE HistoryOK'
    BY <1>5, <1>7, CallTypes DEF StartClear, Busy, Phases
<1>8. ASSUME NEW t \in Threads, NEW k \in Keys, NEW d \in Lifetimes, StartGet(t, k, d)
      PROVE HistoryOK'
    BY <1>5, <1>8, CallTypes DEF StartGet, Busy, Phases
<1>9. ASSUME NEW t \in Threads, SweepLock(t)
      PROVE HistoryOK'
    <2>1. [call[t] EXCEPT !.at = "sweep"] \in Call
        BY DEF Call, Phases, TypeOK
    <2> QED
        BY <1>5, <1>9, <2>1 DEF SweepLock, Call, TypeOK
<1>10. ASSUME NEW t \in Threads, Hit(t)
       PROVE HistoryOK'
    <2>1. cache[call[t].key].value \in Values
        BY <1>10 DEF Hit, CacheValue, TypeOK
    <2> QED
        BY <1>5, <1>10, <2>1, CallTypes DEF Hit, Idle, Outcomes
<1>11. ASSUME NEW t \in Threads, CreateErr(t)
       PROVE HistoryOK'
    BY <1>5, <1>11, CallTypes DEF CreateErr, Idle, Outcomes
<1>12. ASSUME NEW t \in Threads, CreatePanic(t)
       PROVE HistoryOK'
    BY <1>5, <1>12, CallTypes DEF CreatePanic, Idle, Outcomes
<1>13. ASSUME NEW t \in Threads, Reject(t)
       PROVE HistoryOK'
    BY <1>5, <1>13, CallTypes DEF Reject, Idle, Outcomes
<1> QED
    BY <1>1, <1>2, <1>3, <1>4, <1>6, <1>7, <1>8, <1>9, <1>10, <1>11, <1>12, <1>13
       DEF Next, Proceed

(***************************************************************************)
(* No entry lingers: what had expired by the last cleanup is removed, or   *)
(* some thread is about to.                                                *)
(***************************************************************************)
WillSweep(t, k) ==
    \/ call[t].at = "clear"
    \/ call[t].at = "sweep" /\ cache[k].expiration <= started[t]

LEMMA NextNoLingering ==
    TypeOK /\ ClockOK /\ NoLingering /\ [Next]_vars => NoLingering'
<1> SUFFICES ASSUME TypeOK, ClockOK, NoLingering, [Next]_vars,
                    NEW k \in Keys, Stale(k)', ~poisoned'
             PROVE  \E t \in Threads : WillSweep(t, k)'
    BY DEF NoLingering, WillSweep
<1>0. Stale(k) /\ ~poisoned => \E t \in Threads : WillSweep(t, k)
    BY DEF NoLingering, WillSweep
<1>1. ASSUME NEW t \in Threads, NEW interval \in Intervals, StartClear(t, interval)
      PROVE  WillSweep(t, k)'
    BY <1>1 DEF StartClear, WillSweep, Busy, TypeOK
<1>2. ASSUME NEW t \in Threads, SweepLock(t)
      PROVE  WillSweep(t, k)'
    <2>1. cache[k].expiration \in Nat /\ cache[k].expiration < lastCleanup
        BY <1>2 DEF SweepLock, Stale, TypeOK, CacheValue
    <2>2. cache[k].expiration <= now
        BY <2>1 DEF ClockOK, TypeOK
    <2> QED
        BY <1>2, <2>2 DEF SweepLock, WillSweep, Busy, TypeOK
<1>3. ASSUME NEW t \in Threads, NEW removed \in SUBSET Keys, SweepDone(t, removed)
      PROVE  \E u \in Threads : WillSweep(u, k)'
    <2>1. k \notin removed /\ cache'[k] = cache[k] /\ Stale(k) /\ ~poisoned
        BY <1>3 DEF SweepDone, Stale, TypeOK
    <2>2. PICK u \in Threads : WillSweep(u, k)
        BY <1>0, <2>1
    <2>3. u # t
        BY <1>3, <2>1, <2>2 DEF SweepDone, WillSweep, Stale, ExpiredAt, TypeOK, CacheValue
    <2>4. call'[u] = call[u] /\ started'[u] = started[u]
        BY <1>3, <2>3 DEF SweepDone, TypeOK
    <2> QED
        BY <2>1, <2>2, <2>4 DEF WillSweep
<1>4. ASSUME NEW t \in Threads, NEW v \in Values, CreateOk(t, v)
      PROVE  \E u \in Threads : WillSweep(u, k)'
    <2>1. call[t].key # k
        <3> SUFFICES ASSUME call[t].key = k PROVE FALSE
            OBVIOUS
        <3>1. cache'[k].expiration = Expiration(lifetime[t]) /\ lifetime[t] \in Lifetimes
            BY <1>4 DEF CreateOk, TypeOK
        <3>2. Expiration(lifetime[t]) # None => Expiration(lifetime[t]) >= now
            BY <3>1, ExpirationType DEF TypeOK
        <3> QED
            BY <1>4, <3>1, <3>2, ExpirationType DEF CreateOk, Stale, ClockOK, TypeOK
    <2>2. cache'[k] = cache[k] /\ Stale(k) /\ ~poisoned
        BY <1>4, <2>1 DEF CreateOk, Stale, TypeOK
    <2>3. PICK u \in Threads : WillSweep(u, k)
        BY <1>0, <2>2
    <2>4. call'[u] = call[u] /\ started'[u] = started[u]
        BY <1>4, <2>3 DEF CreateOk, WillSweep, TypeOK
    <2> QED
        BY <2>2, <2>3, <2>4 DEF WillSweep
<1>5. ASSUME UNCHANGED <<cache, lastCleanup, started, poisoned>>,
             \A u \in Threads : call[u].at \in {"clear", "sweep"} => call'[u] = call[u]
      PROVE  \E u \in Threads : WillSweep(u, k)'
    <2>1. PICK u \in Threads : WillSweep(u, k)
        BY <1>0, <1>5 DEF Stale
    <2> QED
        BY <1>5, <2>1 DEF WillSweep
<1>6. CASE UNCHANGED vars
    BY <1>5, <1>6 DEF vars
<1>7. CASE Tick
    BY <1>5, <1>7 DEF Tick
<1>8. ASSUME NEW t \in Threads, NEW j \in Keys, NEW d \in Lifetimes, StartGet(t, j, d)
      PROVE  \E u \in Threads : WillSweep(u, k)'
    BY <1>5, <1>8 DEF StartGet, TypeOK
<1>9. ASSUME NEW t \in Threads, Hit(t) \/ Miss(t) \/ CreateErr(t)
      PROVE  \E u \in Threads : WillSweep(u, k)'
    BY <1>5, <1>9 DEF Hit, Miss, CreateErr, TypeOK
<1>10. ASSUME NEW t \in Threads, CreatePanic(t) \/ Reject(t)
       PROVE  FALSE
    BY <1>10 DEF CreatePanic, Reject
<1> QED
    BY <1>1, <1>2, <1>3, <1>4, <1>6, <1>7, <1>8, <1>9, <1>10 DEF Next, Proceed

(***************************************************************************)
(* The theorems.                                                           *)
(***************************************************************************)
LEMMA InitInv == Init => IInv
<1> SUFFICES ASSUME Init PROVE IInv
    OBVIOUS
<1>1. TypeOK
    BY InitType
<1>2. \A t \in Threads : call[t].at = "idle"
    BY DEF Init, Idle
<1> QED
    BY <1>1, <1>2, NoneAssumption
       DEF Init, IInv, HolderInside, ClockOK, HistoryOK, NoLingering, Stale

LEMMA NextInv == IInv /\ [Next]_vars => IInv'
BY NextType, NextHolder, NextClock, NextHistory, NextNoLingering DEF IInv

\* The inductive invariant holds of every reachable state.
THEOREM Invariance == Spec => []IInv
BY InitInv, NextInv, PTL DEF Spec

\* Every variable keeps its type.
THEOREM TypeCorrect == Spec => []TypeOK
<1>1. IInv => TypeOK
    BY DEF IInv
<1> QED
    BY <1>1, Invariance, PTL

\* The cache mutex is held exactly by the thread that runs a creator or a sweep.
THEOREM MutualExclusion == Spec => []HolderInside
<1>1. IInv => HolderInside
    BY DEF IInv
<1> QED
    BY <1>1, Invariance, PTL

\* An entry that had expired by the last cleanup is gone, or a sweep that will
\* remove it is under way.
THEOREM CleanupComplete == Spec => []NoLingering
<1>1. IInv => NoLingering
    BY DEF IInv
<1> QED
    BY <1>1, Invariance, PTL

\* The cache answers with the value last created for the key, within the
\* lifetime that value was created with.
THEOREM Freshness == Spec => ServedFresh
<1>1. ASSUME IInv, [Next]_vars, NEW t \in Threads
      PROVE  FreshAnswer(t)
    <2> USE <1>1 DEF IInv
    <2>1. ASSUME NEW u \in Threads, Hit(u)
          PROVE  FreshAnswer(t)
        <3>1. CASE u # t
            BY <2>1, <3>1 DEF Hit, FreshAnswer, AnswersFromCache, TypeOK
        <3>2. CASE u = t
            <4> DEFINE k == call[t].key
            <4>1. k \in Keys /\ cache[k] # None /\ IsValid(cache[k])
                BY <2>1, <3>2 DEF Hit, TypeOK
            <4>2. born[k] \in Birth /\ cache[k].value = born[k].value
                BY <4>1 DEF HistoryOK, TypeOK
            <4>3. ~Elapsed(born[k])
                <5> SUFFICES ASSUME born[k].lifetime # None
                             PROVE  ~(born[k].at + born[k].lifetime <= now)
                    BY DEF Elapsed
                <5>1. born[k].at \in Nat /\ born[k].lifetime \in Nat
                    BY <4>2, LifetimesAssumption DEF Birth
                <5>2. cache[k].expiration = born[k].at + born[k].lifetime
                    BY <4>1 DEF HistoryOK
                <5>3. now < born[k].at + born[k].lifetime
                    BY <4>1, <5>1, <5>2, NoneAssumption DEF IsValid
                <5> QED
                    BY <5>1, <5>3 DEF TypeOK
            <4>4. born[k] # None
                BY <4>1 DEF HistoryOK
            <4>5. call'[t].value = cache[k].value
                BY <2>1, <3>2 DEF Hit, Idle, TypeOK
            <4> QED
                BY <4>2, <4>3, <4>4, <4>5 DEF FreshAnswer
        <3> QED
            BY <3>1, <3>2
    <2>2. ASSUME NEW u \in Threads, NEW c \in Call,
                 call' = [call EXCEPT ![u] = c],
                 call[u].at # "get" \/ c.at # "idle" \/ c.outcome # "ok"
          PROVE  FreshAnswer(t)
        BY <2>2 DEF FreshAnswer, AnswersFromCache, TypeOK
    <2>3. CASE UNCHANGED call
        BY <2>3 DEF FreshAnswer, AnswersFromCache
    <2>4. ASSUME NEW u \in Threads, NEW interval \in Intervals, StartClear(u, interval)
          PROVE  FreshAnswer(t)
        BY <2>2, <2>4, CallTypes DEF StartClear, Busy, Phases
    <2>5. ASSUME NEW u \in Threads, NEW k \in Keys, NEW d \in Lifetimes, StartGet(u, k, d)
          PROVE  FreshAnswer(t)
        BY <2>2, <2>5, CallTypes DEF StartGet, Busy, Phases
    <2>6. ASSUME NEW u \in Threads, SweepLock(u) \/ Miss(u)
          PROVE  FreshAnswer(t)
        BY <2>6 DEF SweepLock, Miss, Busy, FreshAnswer, AnswersFromCache, TypeOK, Call
    <2>7. ASSUME NEW u \in Threads, NEW removed \in SUBSET Keys, SweepDone(u, removed)
          PROVE  FreshAnswer(t)
        BY <2>2, <2>7, CallTypes DEF SweepDone, Idle, Outcomes
    <2>8. ASSUME NEW u \in Threads, NEW v \in Values, CreateOk(u, v)
          PROVE  FreshAnswer(t)
        BY <2>2, <2>8, CallTypes DEF CreateOk, Idle, Outcomes
    <2>9. ASSUME NEW u \in Threads, CreateErr(u) \/ CreatePanic(u) \/ Reject(u)
          PROVE  FreshAnswer(t)
        BY <2>2, <2>9, CallTypes DEF CreateErr, CreatePanic, Reject, Idle, Outcomes
    <2>10. CASE Tick \/ UNCHANGED vars
        BY <2>3, <2>10 DEF Tick, vars
    <2> QED
        BY <2>1, <2>4, <2>5, <2>6, <2>7, <2>8, <2>9, <2>10 DEF Next, Proceed
<1>2. IInv /\ [Next]_vars => [\A t \in Threads : FreshAnswer(t)]_vars
    BY <1>1
<1> QED
    BY <1>2, Invariance, PTL DEF Spec, ServedFresh

\* Between two creations for the same key the lifetime of the first is over,
\* however many threads ask for it.
THEOREM OneCreationAtATime == Spec => CreationsSpaced
<1>1. ASSUME IInv, [Next]_vars, NEW k \in Keys
      PROVE  CreationSpaced(k)
    <2>1. ASSUME NEW t \in Threads, NEW v \in Values, CreateOk(t, v)
          PROVE  CreationSpaced(k)
        BY <1>1, <2>1 DEF CreateOk, CreationSpaced, IInv, HistoryOK, TypeOK
    <2>2. CASE UNCHANGED born
        BY <2>2 DEF CreationSpaced
    <2>3. ASSUME NEW t \in Threads
          PROVE  /\ \A interval \in Intervals : StartClear(t, interval) => UNCHANGED born
                 /\ \A j \in Keys, d \in Lifetimes : StartGet(t, j, d) => UNCHANGED born
                 /\ \A removed \in SUBSET Keys : SweepDone(t, removed) => UNCHANGED born
                 /\ SweepLock(t) \/ Hit(t) \/ Miss(t) \/ CreateErr(t)
                        \/ CreatePanic(t) \/ Reject(t) => UNCHANGED born
        BY DEF StartClear, StartGet, SweepDone, SweepLock, Hit, Miss, CreateErr,
               CreatePanic, Reject
    <2> QED
        BY <1>1, <2>1, <2>2, <2>3 DEF Next, Proceed, Tick, vars
<1>2. IInv /\ [Next]_vars => [\A k \in Keys : CreationSpaced(k)]_vars
    BY <1>1
<1> QED
    BY <1>2, Invariance, PTL DEF Spec, CreationsSpaced

(***************************************************************************)
(* Refinement.                                                             *)
(***************************************************************************)
\* While a thread creates, or nobody holds the mutex, no sweep is running.
LEMMA NoSweeper ==
    ASSUME TypeOK, HolderInside,
           holder = None \/ \E t \in Threads : call[t].at = "create"
    PROVE  /\ \A t \in Threads : ~Sweeping(t)
           /\ holderBar = holder
           /\ callBar = call
BY NoneAssumption DEF TypeOK, HolderInside, Sweeping, holderBar, callBar

\* What a cached value looks like in the abstract cache.
LEMMA EntriesBar ==
    ASSUME TypeOK, NEW k \in Keys
    PROVE  /\ cache[k] = None => entriesBar[k] = None
           /\ cache[k] # None =>
                 /\ entriesBar[k] = [value |-> cache[k].value, live |-> IsValid(cache[k])]
                 /\ entriesBar[k] # None
                 /\ entriesBar[k].live <=> IsValid(cache[k])
<1>1. CASE cache[k] = None
    BY <1>1 DEF entriesBar
<1>2. CASE cache[k] # None
    <2>1. cache[k].value \in Values /\ IsValid(cache[k]) \in BOOLEAN
        BY <1>2 DEF TypeOK, CacheValue, IsValid
    <2>2. entriesBar[k] = [value |-> cache[k].value, live |-> IsValid(cache[k])]
        BY <1>2 DEF entriesBar
    <2>3. entriesBar[k] \in [value: Values, live: BOOLEAN]
        BY <2>1, <2>2
    <2>4. entriesBar[k] # None
        BY <2>3, EntryAssumption
    <2>5. entriesBar[k].live = IsValid(cache[k])
        BY <2>2
    <2> QED
        BY <1>2, <2>1, <2>2, <2>4, <2>5, Zenon
<1> QED
    BY <1>1, <1>2

\* A step that leaves the cache, the mutex and the clock alone shows in the
\* abstract cache as the same change of the thread's call.
LEMMA CallStep ==
    ASSUME TypeOK, NEW t \in Threads, NEW c \in Call,
           call' = [call EXCEPT ![t] = c], c.at # "sweep", ~Sweeping(t),
           UNCHANGED <<cache, holder, now>>
    PROVE  /\ entriesBar' = entriesBar
           /\ holderBar' = holderBar
           /\ callBar' = [callBar EXCEPT ![t] = c]
           /\ callBar[t] = call[t]
<1>1. entriesBar' = entriesBar
    BY DEF entriesBar, IsValid
<1>2. \A u \in Threads : Sweeping(u)' <=> Sweeping(u)
    BY DEF Sweeping, TypeOK
<1>3. holderBar' = holderBar
    BY <1>2 DEF holderBar
<1>4. callBar' = [callBar EXCEPT ![t] = c]
    BY <1>2 DEF callBar, TypeOK
<1> QED
    BY <1>1, <1>3, <1>4 DEF callBar

LEMMA InitRefines == Init => Abstract!LCInit
BY DEF Init, Abstract!LCInit, entriesBar, holderBar, callBar, Sweeping, Idle, Abstract!Idle

LEMMA NextRefines ==
    IInv /\ IInv' /\ [Next]_vars => [Abstract!LCNext]_(Abstract!lcVars)
<1> SUFFICES ASSUME IInv, IInv', [Next]_vars
             PROVE  Abstract!LCNext \/ UNCHANGED <<entriesBar, holderBar, poisoned, callBar>>
    BY DEF Abstract!lcVars
<1> USE DEF IInv
<1> DEFINE bar == <<entriesBar, holderBar, poisoned, callBar>>
<1>1. CASE UNCHANGED vars
    BY <1>1 DEF vars, entriesBar, holderBar, callBar, Sweeping, IsValid
<1>2. CASE Tick
    <2> DEFINE expired == {k \in Keys : cache[k] # None /\ ~IsValid(cache[k])'}
    <2>1. \A k \in Keys : cache[k] # None /\ IsValid(cache[k])' => IsValid(cache[k])
        BY <1>2 DEF Tick, IsValid, TypeOK, CacheValue
    <2>2. entriesBar' = [k \in Keys |->
                           IF k \in expired /\ entriesBar[k] # None
                           THEN [value |-> entriesBar[k].value, live |-> FALSE]
                           ELSE entriesBar[k]]
        <3>1. cache' = cache
            BY <1>2 DEF Tick
        <3>2. ASSUME NEW k \in Keys, cache[k] # None
              PROVE  [value |-> cache[k].value, live |-> IsValid(cache[k])'] =
                        IF k \in expired /\ entriesBar[k] # None
                        THEN [value |-> entriesBar[k].value, live |-> FALSE]
                        ELSE entriesBar[k]
            <4>1. /\ entriesBar[k] = [value |-> cache[k].value, live |-> IsValid(cache[k])]
                  /\ entriesBar[k] # None
                BY <3>2, EntriesBar
            <4>2. CASE IsValid(cache[k])'
                <5>1. IsValid(cache[k])' = IsValid(cache[k]) /\ k \notin expired
                    BY <2>1, <3>2, <4>2 DEF IsValid
                <5> QED
                    BY <4>1, <5>1, Zenon
            <4>3. CASE ~IsValid(cache[k])'
                <5>1. IsValid(cache[k])' = FALSE
                    BY <4>3 DEF IsValid
                <5>2. k \in expired /\ entriesBar[k] # None
                    BY <3>2, <4>1, <4>3
                <5>3. entriesBar[k].value = cache[k].value
                    BY <4>1
                <5> QED
                    BY <5>1, <5>2, <5>3, Zenon
            <4> QED
                BY <4>2, <4>3
        <3>3. \A k \in Keys : cache[k] = None =>
                 k \notin expired /\ entriesBar[k] = None
            BY EntriesBar
        <3> QED
            BY <3>1, <3>2, <3>3 DEF entriesBar
    <2>3. UNCHANGED <<holderBar, poisoned, callBar>>
        BY <1>2 DEF Tick, holderBar, callBar, Sweeping
    <2>4. Abstract!Expire(expired)
        BY <2>2, <2>3 DEF Abstract!Expire
    <2> QED
        BY <2>4 DEF Abstract!LCNext
<1>3. ASSUME NEW t \in Threads, NEW interval \in Intervals, StartClear(t, interval)
      PROVE  Abstract!LCNext
    <2>1. Busy("clear", None) \in Call /\ Busy("clear", None).at # "sweep" /\ ~Sweeping(t)
        BY <1>3, CallTypes DEF StartClear, Busy, Phases, Sweeping
    <2>2. Abstract!StartClear(t)
        BY <1>3, <2>1, CallStep DEF StartClear, Abstract!StartClear, Busy, Abstract!Busy
    <2> QED
        BY <2>2 DEF Abstract!LCNext
<1>4. ASSUME NEW t \in Threads, NEW k \in Keys, NEW d \in Lifetimes, StartGet(t, k, d)
      PROVE  Abstract!LCNext
    <2>1. Busy("get", k) \in Call /\ Busy("get", k).at # "sweep" /\ ~Sweeping(t)
        BY <1>4, CallTypes DEF StartGet, Busy, Phases, Sweeping
    <2>2. Abstract!StartGet(t, k)
        BY <1>4, <2>1, CallStep DEF StartGet, Abstract!StartGet, Busy, Abstract!Busy
    <2> QED
        BY <2>2 DEF Abstract!LCNext
<1>5. ASSUME NEW t \in Threads, SweepLock(t)
      PROVE  UNCHANGED bar
    <2>1. holderBar = None
        BY <1>5, NoSweeper DEF SweepLock
    <2>2. holderBar' = None
        BY <1>5 DEF SweepLock, holderBar, Sweeping, TypeOK, Call
    <2>3. callBar' = callBar
        BY <1>5 DEF SweepLock, callBar, Sweeping, TypeOK, Call
    <2> QED
        BY <1>5, <2>1, <2>2, <2>3 DEF SweepLock, entriesBar, IsValid
<1>6. ASSUME NEW t \in Threads, NEW removed \in SUBSET Keys, SweepDone(t, removed)
      PROVE  Abstract!LCNext
    <2>1. Sweeping(t) /\ holder = t /\ ~poisoned /\ holderBar = None
        BY <1>6, NoneAssumption DEF SweepDone, Sweeping, holderBar, HolderInside
    <2>2. \A u \in Threads : u # t => ~Sweeping(u)
        BY <2>1 DEF Sweeping, HolderInside
    <2>3. callBar[t].at = "clear"
        BY <2>1 DEF callBar, TypeOK, Call
    <2>4. \A k \in removed : entriesBar[k] # None /\ ~entriesBar[k].live
        <3>1. \A k \in removed : cache[k] # None /\ ~IsValid(cache[k])
            BY <1>6 DEF SweepDone, ExpiredAt, IsValid, TypeOK, CacheValue
        <3> QED
            BY <3>1, EntriesBar
    <2>5. entriesBar' = [k \in Keys |-> IF k \in removed THEN None ELSE entriesBar[k]]
        BY <1>6 DEF SweepDone, entriesBar, IsValid
    <2>6. holderBar' = None
        BY <1>6 DEF SweepDone, holderBar
    <2>7. callBar' = [callBar EXCEPT ![t] = Idle("ok", None)]
        BY <1>6, <2>2 DEF SweepDone, callBar, Sweeping, Idle, TypeOK
    <2>8. Abstract!Sweep(t, removed)
        BY <1>6, <2>1, <2>3, <2>4, <2>5, <2>6, <2>7
           DEF SweepDone, Abstract!Sweep, Idle, Abstract!Idle
    <2> QED
        BY <2>8 DEF Abstract!LCNext
<1>7. ASSUME NEW t \in Threads, Hit(t)
      PROVE  Abstract!LCNext
    <2> DEFINE k == call[t].key
    <2>1. k \in Keys /\ cache[k] # None /\ IsValid(cache[k])
        BY <1>7 DEF Hit, TypeOK
    <2>2. /\ entriesBar[k] # None /\ entriesBar[k].live
          /\ entriesBar[k].value = cache[k].value
        <3>1. /\ entriesBar[k] # None
              /\ entriesBar[k].live <=> IsValid(cache[k])
              /\ entriesBar[k] = [value |-> cache[k].value, live |-> IsValid(cache[k])]
            BY <2>1, EntriesBar
        <3>2. entriesBar[k].value = cache[k].value
            BY <3>1
        <3> QED
            BY <2>1, <3>1, <3>2
    <2>3. Idle("ok", cache[k].value) \in Call
        BY <2>1, CallTypes DEF TypeOK, CacheValue, Outcomes
    <2>4. /\ entriesBar' = entriesBar
          /\ holderBar' = holderBar
          /\ callBar' = [callBar EXCEPT ![t] = Idle("ok", cache[k].value)]
          /\ callBar[t] = call[t]
        BY <1>7, <2>3, CallStep DEF Hit, Idle, Sweeping
    <2>5. holderBar = None
        BY <1>7, NoSweeper DEF Hit
    <2>6. Abstract!Hit(t)
        BY <1>7, <2>2, <2>4, <2>5 DEF Hit, Abstract!Hit, Abstract!IsLive, Idle, Abstract!Idle
    <2> QED
        BY <2>6 DEF Abstract!LCNext
<1>8. ASSUME NEW t \in Threads, Miss(t)
      PROVE  Abstract!LCNext
    <2> DEFINE k == call[t].key
    <2>1. k \in Keys /\ ~(cache[k] # None /\ IsValid(cache[k]))
        BY <1>8 DEF Miss, TypeOK
    <2>2. ~(entriesBar[k] # None /\ entriesBar[k].live)
        BY <2>1 DEF entriesBar
    <2>3. entriesBar' = entriesBar
        BY <1>8 DEF Miss, entriesBar, IsValid
    <2>4. holderBar = None /\ callBar = call
        BY <1>8, NoSweeper DEF Miss
    <2>5. \E u \in Threads : call'[u].at = "create"
        BY <1>8 DEF Miss, Busy, TypeOK
    <2>6. holderBar' = holder' /\ callBar' = call'
        BY <2>5, NoneAssumption DEF holderBar, callBar, Sweeping, HolderInside, TypeOK
    <2>7. Abstract!Miss(t)
        BY <1>8, <2>2, <2>3, <2>4, <2>6
           DEF Miss, Abstract!Miss, Abstract!IsLive, Busy, Abstract!Busy
    <2> QED
        BY <2>7 DEF Abstract!LCNext
<1>9. ASSUME NEW t \in Threads,
             call[t].at = "create", holder' = None
      PROVE  /\ holderBar = holder /\ callBar = call
             /\ holderBar' = None /\ callBar' = call'
    <2>1. holderBar = holder /\ callBar = call
        BY <1>9, NoSweeper
    <2>2. \A u \in Threads : call'[u].at # "sweep"
        BY <1>9, NoneAssumption DEF HolderInside, TypeOK
    <2> QED
        BY <1>9, <2>1, <2>2 DEF holderBar, callBar, Sweeping, TypeOK
<1>10. ASSUME NEW t \in Threads, NEW v \in Values, CreateOk(t, v)
       PROVE  Abstract!LCNext
    <2> DEFINE k == call[t].key
               e == [value |-> v, expiration |-> Expiration(lifetime[t])]
               live == IsValid(e)
    <2>1. k \in Keys /\ e # None /\ live \in BOOLEAN
        BY <1>10, EntryAssumption, ExpirationType DEF CreateOk, TypeOK, IsValid
    <2>2. cache' = [cache EXCEPT ![k] = e] /\ now' = now
        BY <1>10 DEF CreateOk
    <2>3. entriesBar' = [entriesBar EXCEPT ![k] = [value |-> v, live |-> live]]
        BY <2>1, <2>2 DEF entriesBar, IsValid, TypeOK
    <2>4. Abstract!CreateOk(t, v, live)
        BY <1>9, <1>10, <2>3 DEF CreateOk, Abstract!CreateOk, Idle, Abstract!Idle
    <2> QED
        BY <2>1, <2>4 DEF Abstract!LCNext
<1>11. ASSUME NEW t \in Threads, CreateErr(t)
       PROVE  Abstract!LCNext
    <2>1. entriesBar' = entriesBar
        BY <1>11 DEF CreateErr, entriesBar, IsValid
    <2>2. Abstract!CreateErr(t)
        BY <1>9, <1>11, <2>1 DEF CreateErr, Abstract!CreateErr, Idle, Abstract!Idle
    <2> QED
        BY <2>2 DEF Abstract!LCNext
<1>12. ASSUME NEW t \in Threads, CreatePanic(t)
       PROVE  Abstract!LCNext
    <2>1. entriesBar' = entriesBar
        BY <1>12 DEF CreatePanic, entriesBar, IsValid
    <2>2. Abstract!CreatePanic(t)
        BY <1>9, <1>12, <2>1 DEF CreatePanic, Abstract!CreatePanic, Idle, Abstract!Idle
    <2> QED
        BY <2>2 DEF Abstract!LCNext
<1>13. ASSUME NEW t \in Threads, Reject(t)
       PROVE  Abstract!LCNext
    <2>1. /\ Idle("panicked", None) \in Call /\ Idle("panicked", None).at # "sweep"
          /\ ~Sweeping(t)
        BY <1>13, CallTypes DEF Reject, Idle, Outcomes, Sweeping
    <2>2. holderBar = None
        BY <1>13, NoSweeper DEF Reject
    <2>3. Abstract!Reject(t)
        BY <1>13, <2>1, <2>2, CallStep DEF Reject, Abstract!Reject, Idle, Abstract!Idle
    <2> QED
        BY <2>3 DEF Abstract!LCNext
<1> QED
    BY <1>1, <1>2, <1>3, <1>4, <1>5, <1>6, <1>7, <1>8, <1>10, <1>11, <1>12, <1>13
       DEF Next, Proceed

\* The timed cache implements the untimed one that KmsManager is built from.
THEOREM Refinement == Spec => ImplementsLockedCache
BY InitRefines, NextRefines, Invariance, PTL
   DEF Spec, ImplementsLockedCache, Abstract!LCSpec
================================================================================
