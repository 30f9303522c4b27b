----------------------------- MODULE ExpiringCache -----------------------------
(***************************************************************************)
(* ExpiringCache of parquet-key-management/src/kms_manager.rs: a hash map  *)
(* behind a Mutex, whose values carry an expiration Instant, and a second  *)
(* Mutex around the Instant of the last cleanup.                           *)
(*                                                                         *)
(* Threads call get_or_create and clear_expired concurrently.  A step is   *)
(* one critical section, or one part of it when time can pass inside it:   *)
(* the creator (a KMS client factory that may block on the network) runs   *)
(* with the cache mutex held and the clock going on, and so does a sweep,  *)
(* which reads now() once per entry.                                       *)
(***************************************************************************)
EXTENDS Naturals

CONSTANTS
    Threads,    \* threads sharing one CryptoFactory
    Keys,       \* cache keys (ClientKey or KekCacheKey)
    Values,     \* what a creator can return
    Lifetimes,  \* the cache_lifetime values in use: None or a Duration
    Intervals,  \* the cleanup_interval values in use
    None,       \* Option::None, and a mutex nobody holds
    MaxInstant, \* the last Instant the platform can represent
    MaxTime     \* bound on the clock

ASSUME NoneAssumption == None \notin Nat /\ None \notin Threads
ASSUME EntryAssumption ==
    /\ None \notin [value: Values, expiration: Nat \cup {None}]
    /\ None \notin [value: Values, at: Nat, lifetime: Lifetimes, by: Threads]
    /\ None \notin [value: Values, live: BOOLEAN]
ASSUME LifetimesAssumption == Lifetimes \subseteq Nat \cup {None}
ASSUME IntervalsAssumption == Intervals \subseteq Nat
ASSUME TimeAssumption == MaxInstant \in Nat /\ MaxTime \in Nat

VARIABLES
    cache,       \* cache: the value and its expiration_time, by key
    holder,      \* the thread inside cache.lock(), or None
    poisoned,    \* the cache mutex was poisoned by a panic of its holder
    lastCleanup, \* last_cleanup
    now,         \* what now() returns
    call,        \* what each thread is doing, and the answer to its last call
    lifetime,    \* the cache_lifetime of the get_or_create a thread is in
    started,     \* when the sweep a thread is in took the mutex
    born         \* history: the last creation that succeeded for each key

vars == <<cache, holder, poisoned, lastCleanup, now, call, lifetime, started, born>>

CacheValue == [value: Values, expiration: Nat \cup {None}]
Birth == [value: Values, at: Nat, lifetime: Lifetimes, by: Threads]

Phases == {"idle", "get", "create", "clear", "sweep"}
Outcomes == {"none", "ok", "failed", "panicked"}

Call == [at: Phases, key: Keys \cup {None},
         outcome: Outcomes, value: Values \cup {None}]

TypeOK ==
    /\ cache \in [Keys -> CacheValue \cup {None}]
    /\ holder \in Threads \cup {None}
    /\ poisoned \in BOOLEAN
    /\ lastCleanup \in Nat
    /\ now \in Nat
    /\ call \in [Threads -> Call]
    /\ lifetime \in [Threads -> Lifetimes \cup {None}]
    /\ started \in [Threads -> Nat]
    /\ born \in [Keys -> Birth \cup {None}]
    /\ \A t \in Threads : call[t].at \in {"get", "create"} =>
          call[t].key \in Keys /\ lifetime[t] \in Lifetimes

Idle(outcome, value) ==
    [at |-> "idle", key |-> None, outcome |-> outcome, value |-> value]
Busy(at, key) ==
    [at |-> at, key |-> key, outcome |-> "none", value |-> None]

Init ==
    /\ cache = [k \in Keys |-> None]
    /\ holder = None
    /\ poisoned = FALSE
    /\ lastCleanup = 0
    /\ now = 0
    /\ call = [t \in Threads |-> Idle("none", None)]
    /\ lifetime = [t \in Threads |-> None]
    /\ started = [t \in Threads |-> 0]
    /\ born = [k \in Keys |-> None]

(***************************************************************************)
(* ExpiringCacheValue.                                                     *)
(***************************************************************************)
\* A mutant of IsValid: a value is still valid at the instant it expires.
IsValidMutant(entry) == entry.expiration # None => now <= entry.expiration

IsValid(entry) == entry.expiration # None => now < entry.expiration

\* The keys whose entry a sweep that looked at it at some instant would remove.
ExpiredAt(instant) ==
    {k \in Keys : /\ cache[k] # None
                  /\ cache[k].expiration # None
                  /\ instant >= cache[k].expiration}

\* now() + d panics when the sum is not an Instant.
Overflows(d) == d # None /\ now + d > MaxInstant
\* A mutant of Expiration, which subtracts the lifetime.
ExpirationMutant(d) == IF d = None THEN None ELSE now - d

Expiration(d) == IF d = None THEN None ELSE now + d

(***************************************************************************)
(* clear_expired.  The critical section of last_cleanup is one step; a     *)
(* call that is not due returns from it without changing anything.  A due  *)
(* call records the cleanup before it has the cache mutex, so the sweep    *)
(* itself may come much later.                                             *)
(***************************************************************************)
Due(interval) == now - lastCleanup >= interval

StartClear(t, interval) ==
    /\ call[t].at = "idle"
    /\ Due(interval)
    /\ lastCleanup' = now
    /\ call' = [call EXCEPT ![t] = Busy("clear", None)]
    /\ UNCHANGED <<cache, holder, poisoned, now, lifetime, started, born>>

SweepLock(t) ==
    /\ call[t].at = "clear" /\ holder = None /\ ~poisoned
    /\ holder' = t
    /\ call' = [call EXCEPT ![t].at = "sweep"]
    /\ started' = [started EXCEPT ![t] = now]
    /\ UNCHANGED <<cache, poisoned, lastCleanup, now, lifetime, born>>
\* A mutant of SweepDone, which stops at the first entry it removes.
SweepDoneMutant(t, removed) ==
    /\ call[t].at = "sweep"
    /\ removed \subseteq ExpiredAt(now)
    /\ \A k, l \in removed : k = l
    /\ ExpiredAt(started[t]) # {} => removed # {}
    /\ cache' = [k \in Keys |-> IF k \in removed THEN None ELSE cache[k]]
    /\ holder' = None
    /\ call' = [call EXCEPT ![t] = Idle("ok", None)]
    /\ started' = [started EXCEPT ![t] = 0]
    /\ UNCHANGED <<poisoned, lastCleanup, now, lifetime, born>>

\* Each entry is compared with a now() of its own, between the start of the
\* sweep and its end.
SweepDone(t, removed) ==
    /\ call[t].at = "sweep"
    /\ ExpiredAt(started[t]) \subseteq removed
    /\ removed \subseteq ExpiredAt(now)
    /\ cache' = [k \in Keys |-> IF k \in removed THEN None ELSE cache[k]]
    /\ holder' = None
    /\ call' = [call EXCEPT ![t] = Idle("ok", None)]
    /\ started' = [started EXCEPT ![t] = 0]
    /\ UNCHANGED <<poisoned, lastCleanup, now, lifetime, born>>

(***************************************************************************)
(* get_or_create.                                                          *)
(***************************************************************************)
StartGet(t, k, d) ==
    /\ call[t].at = "idle"
    /\ call' = [call EXCEPT ![t] = Busy("get", k)]
    /\ lifetime' = [lifetime EXCEPT ![t] = d]
    /\ UNCHANGED <<cache, holder, poisoned, lastCleanup, now, started, born>>
\* A mutant of Hit, which goes on with a poisoned mutex.
HitMutant(t) ==
    LET entry == cache[call[t].key]
    IN  /\ call[t].at = "get" /\ holder = None
        /\ entry # None /\ IsValid(entry)
        /\ call' = [call EXCEPT ![t] = Idle("ok", entry.value)]
        /\ lifetime' = [lifetime EXCEPT ![t] = None]
        /\ UNCHANGED <<cache, holder, poisoned, lastCleanup, now, started, born>>

Hit(t) ==
    LET entry == cache[call[t].key]
    IN  /\ call[t].at = "get" /\ holder = None /\ ~poisoned
        /\ entry # None /\ IsValid(entry)
        /\ call' = [call EXCEPT ![t] = Idle("ok", entry.value)]
        /\ lifetime' = [lifetime EXCEPT ![t] = None]
        /\ UNCHANGED <<cache, holder, poisoned, lastCleanup, now, started, born>>
\* A mutant of Miss, which lets go of the mutex while the creator runs.
MissMutant(t) ==
    LET entry == cache[call[t].key]
    IN  /\ call[t].at = "get" /\ holder = None /\ ~poisoned
        /\ ~(entry # None /\ IsValid(entry))
        /\ call' = [call EXCEPT ![t] = Busy("create", call[t].key)]
        /\ UNCHANGED <<cache, holder, poisoned, lastCleanup, now, lifetime, started, born>>

\* The creator runs from here to CreateOk, CreateErr or CreatePanic, and the
\* thread keeps the mutex for as long.
Miss(t) ==
    LET entry == cache[call[t].key]
    IN  /\ call[t].at = "get" /\ holder = None /\ ~poisoned
        /\ ~(entry # None /\ IsValid(entry))
        /\ holder' = t
        /\ call' = [call EXCEPT ![t] = Busy("create", call[t].key)]
        /\ UNCHANGED <<cache, poisoned, lastCleanup, now, lifetime, started, born>>

CreateOk(t, v) ==
    LET k == call[t].key
        d == lifetime[t]
    IN  /\ call[t].at = "create"
        /\ ~Overflows(d)
        /\ cache' = [cache EXCEPT ![k] = [value |-> v, expiration |-> Expiration(d)]]
        /\ born' = [born EXCEPT ![k] = [value |-> v, at |-> now, lifetime |-> d, by |-> t]]
        /\ holder' = None
        /\ call' = [call EXCEPT ![t] = Idle("ok", v)]
        /\ lifetime' = [lifetime EXCEPT ![t] = None]
        /\ UNCHANGED <<poisoned, lastCleanup, now, started>>
\* A mutant of CreateErr, which returns with the mutex locked.
CreateErrMutant(t) ==
    /\ call[t].at = "create"
    /\ call' = [call EXCEPT ![t] = Idle("failed", None)]
    /\ lifetime' = [lifetime EXCEPT ![t] = None]
    /\ UNCHANGED <<cache, holder, poisoned, lastCleanup, now, started, born>>

\* The creator's error is returned with `?`: the entry stays as it was.
CreateErr(t) ==
    /\ call[t].at = "create"
    /\ holder' = None
    /\ call' = [call EXCEPT ![t] = Idle("failed", None)]
    /\ lifetime' = [lifetime EXCEPT ![t] = None]
    /\ UNCHANGED <<cache, poisoned, lastCleanup, now, started, born>>
\* A mutant of CreatePanic: the guard is not dropped by unwinding.
CreatePanicMutant(t) ==
    /\ call[t].at = "create"
    /\ poisoned' = TRUE
    /\ call' = [call EXCEPT ![t] = Idle("panicked", None)]
    /\ lifetime' = [lifetime EXCEPT ![t] = None]
    /\ UNCHANGED <<cache, holder, lastCleanup, now, started, born>>

\* The creator panics, or the expiration overflows after it has succeeded:
\* the guard is dropped by the unwinding thread, which poisons the mutex.
CreatePanic(t) ==
    /\ call[t].at = "create"
    /\ holder' = None
    /\ poisoned' = TRUE
    /\ call' = [call EXCEPT ![t] = Idle("panicked", None)]
    /\ lifetime' = [lifetime EXCEPT ![t] = None]
    /\ UNCHANGED <<cache, lastCleanup, now, started, born>>

\* lock().unwrap() on the poisoned mutex panics in the caller.
Reject(t) ==
    /\ call[t].at \in {"get", "clear"} /\ holder = None /\ poisoned
    /\ call' = [call EXCEPT ![t] = Idle("panicked", None)]
    /\ lifetime' = [lifetime EXCEPT ![t] = None]
    /\ UNCHANGED <<cache, holder, poisoned, lastCleanup, now, started, born>>

Tick ==
    /\ now < MaxTime
    /\ now' = now + 1
    /\ UNCHANGED <<cache, holder, poisoned, lastCleanup, call, lifetime, started, born>>

\* What a thread does inside a call it has started.
Proceed(t) ==
    \/ SweepLock(t)
    \/ \E removed \in SUBSET Keys : SweepDone(t, removed)
    \/ Hit(t)
    \/ Miss(t)
    \/ \E v \in Values : CreateOk(t, v)
    \/ CreateErr(t)
    \/ CreatePanic(t)
    \/ Reject(t)

Next ==
    \/ Tick
    \/ \E t \in Threads :
        \/ \E interval \in Intervals : StartClear(t, interval)
        \/ \E k \in Keys, d \in Lifetimes : StartGet(t, k, d)
        \/ Proceed(t)

Spec == Init /\ [][Next]_vars

\* A creator returns or panics in the end, and a thread that can take the
\* mutex is not put off for ever by the scheduler.  std::sync::Mutex is not
\* fair, so nothing is assumed of a thread that others overtake.
Fairness == \A t \in Threads : WF_vars(Proceed(t))

FairSpec == Spec /\ Fairness

(***************************************************************************)
(* Safety.                                                                 *)
(***************************************************************************)
\* Only the thread whose creator or sweep is running is inside the mutex: no
\* early return, error or panic leaves it locked, and no one else is in there,
\* least of all after it was poisoned.
HolderInside ==
    /\ \A t \in Threads : holder = t <=> call[t].at \in {"create", "sweep"}
    /\ poisoned => holder = None

\* The lifetime a value was created with is over.
Elapsed(birth) ==
    birth.lifetime # None /\ birth.at + birth.lifetime <= now

AnswersFromCache(t) ==
    call[t].at = "get" /\ call'[t].at = "idle" /\ call'[t].outcome = "ok"

FreshAnswer(t) ==
    AnswersFromCache(t) =>
        /\ born[call[t].key] # None
        /\ call'[t].value = born[call[t].key].value
        /\ ~Elapsed(born[call[t].key])

\* get_or_create answers from the cache only with the value last created for
\* the key, and only within the lifetime that value was created with.
ServedFresh == [][\A t \in Threads : FreshAnswer(t)]_vars

CreationSpaced(k) ==
    born'[k] # born[k] /\ born[k] # None => Elapsed(born[k])

\* However many threads ask for a key at once, one value is created for it,
\* and the next one only after the lifetime of that value: threads that find
\* it missing wait for the creator of the first (the mutex stays locked).
CreationsSpaced == [][\A k \in Keys : CreationSpaced(k)]_vars

\* last_cleanup is set before the sweep has the cache mutex.  An entry that
\* had expired by then outlives it only while a sweep is still to come or is
\* running, or when the mutex was poisoned.
Stale(k) ==
    cache[k] # None /\ cache[k].expiration # None /\ cache[k].expiration < lastCleanup

NoLingering ==
    \A k \in Keys : Stale(k) /\ ~poisoned =>
        \E t \in Threads :
            \/ call[t].at = "clear"
            \/ call[t].at = "sweep" /\ cache[k].expiration <= started[t]

(***************************************************************************)
(* Liveness.                                                               *)
(***************************************************************************)
\* The thread inside the mutex leaves it and returns, whatever its creator does;
\* once a creator has panicked so does every other, in a panic of its own when it
\* needs the mutex: no call is left hanging.
CallsReturn ==
    \A t \in Threads :
        (holder = t \/ (poisoned /\ call[t].at # "idle"))
            ~> (call[t].at = "idle" /\ holder # t)

(***************************************************************************)
(* Refinement: without its clock this is a LockedCache.  A sweep takes     *)
(* effect when it ends, so the mutex is free there until then.             *)
(***************************************************************************)
Sweeping(t) == call[t].at = "sweep"

entriesBar ==
    [k \in Keys |-> IF cache[k] = None THEN None
                    ELSE [value |-> cache[k].value, live |-> IsValid(cache[k])]]
holderBar == IF \E t \in Threads : Sweeping(t) THEN None ELSE holder
callBar ==
    [t \in Threads |-> IF Sweeping(t) THEN [call[t] EXCEPT !.at = "clear"] ELSE call[t]]

Abstract == INSTANCE LockedCache WITH
    entries <- entriesBar, holder <- holderBar, call <- callBar

\* Every behaviour of the cache is one of a LockedCache: what KmsManager is
\* built on.
ImplementsLockedCache == Abstract!LCSpec
================================================================================
