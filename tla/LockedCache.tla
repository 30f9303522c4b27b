------------------------------ MODULE LockedCache ------------------------------
(***************************************************************************)
(* What ExpiringCache (kms_manager.rs) promises to KmsManager, without its *)
(* clock: a map behind one mutex, whose entries are live until they expire *)
(* at some moment the caller does not control.  A live entry is the only   *)
(* answer for its key and stays until it expires; an expired one is never  *)
(* handed out.  The mutex is held while a missing value is being created,  *)
(* and is poisoned, as a Rust Mutex is, when its holder panics.            *)
(*                                                                         *)
(* ExpiringCache implements this module; KmsManager is composed from three *)
(* instances of it.                                                        *)
(***************************************************************************)
CONSTANTS
    Threads,    \* callers of the cache
    Keys,       \* cache keys
    Values,     \* what a creator can return
    None        \* Rust's Option::None, and a mutex nobody holds

VARIABLES
    entries,    \* cache.cache: a value and whether it is still valid, by key
    holder,     \* the thread inside cache.lock(), or None
    poisoned,   \* the mutex was poisoned by a panic of its holder
    call        \* what each thread is doing in this cache, and its last answer

lcVars == <<entries, holder, poisoned, call>>

Entry == [value: Values, live: BOOLEAN]

Phases == {"idle", "get", "create", "clear"}
Outcomes == {"none", "ok", "failed", "panicked"}

Call == [at: Phases, key: Keys \cup {None},
         outcome: Outcomes, value: Values \cup {None}]

LCTypeOK ==
    /\ entries \in [Keys -> Entry \cup {None}]
    /\ holder \in Threads \cup {None}
    /\ poisoned \in BOOLEAN
    /\ call \in [Threads -> Call]

Idle(outcome, value) ==
    [at |-> "idle", key |-> None, outcome |-> outcome, value |-> value]
Busy(at, key) ==
    [at |-> at, key |-> key, outcome |-> "none", value |-> None]

LCInit ==
    /\ entries = [k \in Keys |-> None]
    /\ holder = None
    /\ poisoned = FALSE
    /\ call = [t \in Threads |-> Idle("none", None)]

IsLive(k) == entries[k] # None /\ entries[k].live

(***************************************************************************)
(* get_or_create, from the call to the answer.                             *)
(***************************************************************************)
StartGet(t, k) ==
    /\ call[t].at = "idle"
    /\ call' = [call EXCEPT ![t] = Busy("get", k)]
    /\ UNCHANGED <<entries, holder, poisoned>>

Hit(t) ==
    /\ call[t].at = "get" /\ holder = None /\ ~poisoned
    /\ IsLive(call[t].key)
    /\ call' = [call EXCEPT ![t] = Idle("ok", entries[call[t].key].value)]
    /\ UNCHANGED <<entries, holder, poisoned>>

Miss(t) ==
    /\ call[t].at = "get" /\ holder = None /\ ~poisoned
    /\ ~IsLive(call[t].key)
    /\ holder' = t
    /\ call' = [call EXCEPT ![t] = Busy("create", call[t].key)]
    /\ UNCHANGED <<entries, poisoned>>

\* A value created with a zero lifetime is stored already expired.
CreateOk(t, v, live) ==
    /\ call[t].at = "create"
    /\ entries' = [entries EXCEPT ![call[t].key] = [value |-> v, live |-> live]]
    /\ holder' = None
    /\ call' = [call EXCEPT ![t] = Idle("ok", v)]
    /\ UNCHANGED poisoned

CreateErr(t) ==
    /\ call[t].at = "create"
    /\ holder' = None
    /\ call' = [call EXCEPT ![t] = Idle("failed", None)]
    /\ UNCHANGED <<entries, poisoned>>

CreatePanic(t) ==
    /\ call[t].at = "create"
    /\ holder' = None
    /\ poisoned' = TRUE
    /\ call' = [call EXCEPT ![t] = Idle("panicked", None)]
    /\ UNCHANGED entries

(***************************************************************************)
(* clear_expired, once it is due.  Which expired entries a sweep removes   *)
(* is left open: some may expire while it runs.                            *)
(***************************************************************************)
StartClear(t) ==
    /\ call[t].at = "idle"
    /\ call' = [call EXCEPT ![t] = Busy("clear", None)]
    /\ UNCHANGED <<entries, holder, poisoned>>

Sweep(t, removed) ==
    /\ call[t].at = "clear" /\ holder = None /\ ~poisoned
    /\ \A k \in removed : entries[k] # None /\ ~entries[k].live
    /\ entries' = [k \in Keys |-> IF k \in removed THEN None ELSE entries[k]]
    /\ call' = [call EXCEPT ![t] = Idle("ok", None)]
    /\ UNCHANGED <<holder, poisoned>>

\* lock().unwrap() on a poisoned mutex panics in the caller.
Reject(t) ==
    /\ call[t].at \in {"get", "clear"} /\ holder = None /\ poisoned
    /\ call' = [call EXCEPT ![t] = Idle("panicked", None)]
    /\ UNCHANGED <<entries, holder, poisoned>>

\* Time passes: every entry of a set stops being live.
Expire(expired) ==
    /\ entries' = [k \in Keys |->
                      IF k \in expired /\ entries[k] # None
                      THEN [value |-> entries[k].value, live |-> FALSE]
                      ELSE entries[k]]
    /\ UNCHANGED <<holder, poisoned, call>>

LCNext ==
    \/ \E t \in Threads :
        \/ \E k \in Keys : StartGet(t, k)
        \/ Hit(t)
        \/ Miss(t)
        \/ \E v \in Values, live \in BOOLEAN : CreateOk(t, v, live)
        \/ CreateErr(t)
        \/ CreatePanic(t)
        \/ StartClear(t)
        \/ \E removed \in SUBSET Keys : Sweep(t, removed)
        \/ Reject(t)
    \/ \E expired \in SUBSET Keys : Expire(expired)

LCSpec == LCInit /\ [][LCNext]_lcVars
================================================================================
