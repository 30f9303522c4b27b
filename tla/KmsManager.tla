------------------------------ MODULE KmsManager ------------------------------
(***************************************************************************)
(* KmsManager of parquet-key-management/src/kms_manager.rs, and the        *)
(* KmsConnectionConfig of kms/mod.rs whose access token it reads: the KMS  *)
(* client cache and the two caches of KEK caches, three LockedCaches that  *)
(* every thread using one CryptoFactory shares.                            *)
(*                                                                         *)
(* Each thread makes up to MaxCalls calls of get_client,                   *)
(* get_kek_read_cache, get_kek_write_cache or refresh_key_access_token.    *)
(* A call of the first three clears the caches in turn when its caller has *)
(* a cache lifetime, reads the token, and looks its key up.  get_client    *)
(* keeps the token's read guard until it returns, the KMS client factory   *)
(* runs under that guard and under the client cache's mutex, and itself    *)
(* reads the token (test_kms/mod.rs:89).                                   *)
(***************************************************************************)
EXTENDS Naturals

CONSTANTS
    Threads,      \* threads sharing one CryptoFactory
    Configs,      \* KmsConnectionConfigs
    Cells,        \* the Arc<RwLock<String>> of tokens: clones of a config share one
    Ids,          \* KMS instance ids
    Tokens,       \* access tokens
    Cell, Id,     \* of each config
    FirstToken,   \* the token each cell starts with
    WritersFirst, \* whether RwLock::read waits for writers that are waiting
    MaxCalls,     \* bound on the calls of a thread
    None

ASSUME ConfigsAssumption ==
    /\ Cell \in [Configs -> Cells]
    /\ Id \in [Configs -> Ids]
    /\ FirstToken \in [Cells -> Tokens]
ASSUME WritersFirstAssumption == WritersFirst \in BOOLEAN
ASSUME MaxCallsAssumption == MaxCalls \in Nat

VARIABLES
    clients, clientsHolder, clientsPoisoned, \* kms_client_cache
    reads, readsHolder, readsPoisoned,       \* kek_read_caches
    writes, writesHolder, writesPoisoned,    \* kek_write_caches
    call,   \* what each thread is doing in the cache it is in
    token,  \* the token in each cell
    task,   \* the call of KmsManager or KmsConnectionConfig a thread is in
    made    \* how many calls each thread has begun

clientVars == <<clients, clientsHolder, clientsPoisoned>>
readVars == <<reads, readsHolder, readsPoisoned>>
writeVars == <<writes, writesHolder, writesPoisoned>>
vars == <<clientVars, readVars, writeVars, call, token, task, made>>

ClientKey == [key_access_token: Tokens, kms_instance_id: Ids]
KekCacheKey == Tokens

\* A client, by what the factory built it from; a KEK cache, by what its
\* creator was called with.
Made == [token: Tokens, config: Configs]

ClientCache == INSTANCE LockedCache WITH
    Keys <- ClientKey, Values <- Made,
    entries <- clients, holder <- clientsHolder, poisoned <- clientsPoisoned
ReadCache == INSTANCE LockedCache WITH
    Keys <- KekCacheKey, Values <- Made,
    entries <- reads, holder <- readsHolder, poisoned <- readsPoisoned
WriteCache == INSTANCE LockedCache WITH
    Keys <- KekCacheKey, Values <- Made,
    entries <- writes, holder <- writesHolder, poisoned <- writesPoisoned

KekOps == {"read", "write"}
Ops == {"client", "refresh"} \cup KekOps
\* The step a thread is at: clearing one of the caches, about to read the
\* token, with a key to look up, inside the factory, or about to store.
Steps == {"idle", "clients", "reads", "writes", "token",
          "lookup", "factory", "build", "refresh"}

Task == [op: Ops \cup {None}, config: Configs \cup {None}, cleans: BOOLEAN,
         step: Steps, token: Tokens \cup {None}]

AtRest == [op |-> None, config |-> None, cleans |-> FALSE,
           step |-> "idle", token |-> None]

TypeOK ==
    /\ clients \in [ClientKey -> ClientCache!Entry \cup {None}]
    /\ reads \in [KekCacheKey -> ReadCache!Entry \cup {None}]
    /\ writes \in [KekCacheKey -> WriteCache!Entry \cup {None}]
    /\ {clientsHolder, readsHolder, writesHolder} \subseteq Threads \cup {None}
    /\ {clientsPoisoned, readsPoisoned, writesPoisoned} \subseteq BOOLEAN
    /\ \A t \in Threads :
          \/ task[t].op = "client" /\ call[t] \in ClientCache!Call
          \/ task[t].op \in KekOps /\ call[t] \in ReadCache!Call
          \/ task[t].op \in {None, "refresh"} /\ call[t].at = "idle"
          \/ task[t].step \in {"clients", "reads", "writes"}
                /\ call[t].at \in {"idle", "clear"}
    /\ token \in [Cells -> Tokens]
    /\ task \in [Threads -> Task]
    /\ made \in [Threads -> 0 .. MaxCalls]

Init ==
    /\ ClientCache!LCInit
    /\ ReadCache!LCInit
    /\ WriteCache!LCInit
    /\ token = FirstToken
    /\ task = [t \in Threads |-> AtRest]
    /\ made = [t \in Threads |-> 0]

(***************************************************************************)
(* KmsConnectionConfig: the RwLock around the token.  A write is over in   *)
(* the step that begins it, so only read guards are ever held: by          *)
(* get_client, from reading the token until it returns.                    *)
(***************************************************************************)
\* A mutant of Guards: get_client clones the token and drops the guard.
GuardsMutant(cell) == {}

Guards(cell) ==
    {t \in Threads : /\ task[t].op = "client"
                     /\ task[t].step \in {"lookup", "factory", "build"}
                     /\ Cell[task[t].config] = cell}

WaitingWriters(cell) ==
    {t \in Threads : task[t].step = "refresh" /\ Cell[task[t].config] = cell}

\* The std RwLock leaves open whether a reader waits for a waiting writer; on
\* Linux it does.
CanRead(cell) == WritersFirst => WaitingWriters(cell) = {}

(***************************************************************************)
(* The beginning and the end of a call.                                    *)
(***************************************************************************)
Begin(t, op, c, cleans, first, tok) ==
    /\ task[t].step = "idle" /\ made[t] < MaxCalls
    /\ task' = [task EXCEPT ![t] = [op |-> op, config |-> c, cleans |-> cleans,
                                    step |-> first, token |-> tok]]
    /\ made' = [made EXCEPT ![t] = @ + 1]
    /\ UNCHANGED <<clientVars, readVars, writeVars, call, token>>
\* A mutant of BeginGet: the caches are cleared for callers without a cache
\* lifetime too.
BeginGetMutant(t, op, c, cleans) ==
    op # "refresh" /\ Begin(t, op, c, cleans, "clients", None)

\* get_client, get_kek_read_cache or get_kek_write_cache; cleans says whether
\* the cache_lifetime is Some, which makes it the cleanup interval as well.
BeginGet(t, op, c, cleans) ==
    op # "refresh" /\ Begin(t, op, c, cleans, IF cleans THEN "clients" ELSE "token", None)

\* refresh_key_access_token, up to its write().
BeginRefresh(t, c, tok) == Begin(t, "refresh", c, FALSE, "refresh", tok)

Refresh(t) ==
    LET cell == Cell[task[t].config]
    IN  /\ task[t].step = "refresh"
        /\ Guards(cell) = {}
        /\ token' = [token EXCEPT ![cell] = task[t].token]
        /\ task' = [task EXCEPT ![t] = AtRest]
        /\ UNCHANGED <<clientVars, readVars, writeVars, call, made>>

MoveTo(t, step) == task' = [task EXCEPT ![t].step = step]
End(t) == task' = [task EXCEPT ![t] = AtRest]

(***************************************************************************)
(* clear_expired_entries: the caches in turn, each of them only when its   *)
(* cleanup is due.  Mutex poisoning ends the call at the first cache it    *)
(* meets.                                                                  *)
(***************************************************************************)
Clearing == {"clients", "reads", "writes"}
AfterClearing(step) ==
    CASE step = "clients" -> "reads"
      [] step = "reads" -> "writes"
      [] step = "writes" -> "token"

\* An action of one cache; the other two stay as they are.
InClients(A) == A /\ UNCHANGED <<readVars, writeVars>>
InReads(A) == A /\ UNCHANGED <<clientVars, writeVars>>
InWrites(A) == A /\ UNCHANGED <<clientVars, readVars>>

NotDue(t) ==
    /\ task[t].step \in Clearing /\ call[t].at = "idle"
    /\ MoveTo(t, AfterClearing(task[t].step))
    /\ UNCHANGED <<clientVars, readVars, writeVars, call, token, made>>

StartClear(t) ==
    /\ \/ task[t].step = "clients" /\ InClients(ClientCache!StartClear(t))
       \/ task[t].step = "reads" /\ InReads(ReadCache!StartClear(t))
       \/ task[t].step = "writes" /\ InWrites(WriteCache!StartClear(t))
    /\ UNCHANGED <<token, task, made>>

Sweep(t) ==
    /\ \/ /\ task[t].step = "clients"
          /\ \E removed \in SUBSET ClientKey : InClients(ClientCache!Sweep(t, removed))
       \/ /\ task[t].step = "reads"
          /\ \E removed \in SUBSET KekCacheKey : InReads(ReadCache!Sweep(t, removed))
       \/ /\ task[t].step = "writes"
          /\ \E removed \in SUBSET KekCacheKey : InWrites(WriteCache!Sweep(t, removed))
    /\ MoveTo(t, AfterClearing(task[t].step))
    /\ UNCHANGED <<token, made>>

\* A poisoned mutex, at a sweep or at the lookup: the caller panics, and drops
\* the read guard if it has one.
Uses(t, cache, op) ==
    task[t].step = cache \/ (task[t].step = "lookup" /\ task[t].op = op)

Abort(t) ==
    /\ \/ Uses(t, "clients", "client") /\ InClients(ClientCache!Reject(t))
       \/ Uses(t, "reads", "read") /\ InReads(ReadCache!Reject(t))
       \/ Uses(t, "writes", "write") /\ InWrites(WriteCache!Reject(t))
    /\ End(t)
    /\ UNCHANGED <<token, made>>

(***************************************************************************)
(* get_client: under the read guard from ReadToken on.                     *)
(***************************************************************************)
\* get_client keeps the guard; the other two clone the token and drop it.
ReadToken(t) ==
    LET cell == Cell[task[t].config]
    IN  /\ task[t].step = "token"
        /\ CanRead(cell)
        /\ task' = [task EXCEPT ![t].step = "lookup", ![t].token = token[cell]]
        /\ UNCHANGED <<clientVars, readVars, writeVars, call, token, made>>
\* Mutants of ClientKeyOf: the parts of the key swapped, and a key made with
\* the token the config was created with.
ClientKeyOfSwapped(t) ==
    [key_access_token |-> Id[task[t].config], kms_instance_id |-> task[t].token]
ClientKeyOfFirstToken(t) ==
    [key_access_token |-> FirstToken[Cell[task[t].config]],
     kms_instance_id |-> Id[task[t].config]]

ClientKeyOf(t) ==
    [key_access_token |-> task[t].token, kms_instance_id |-> Id[task[t].config]]

LookUp(t) ==
    /\ task[t].step = "lookup"
    /\ \/ task[t].op = "client" /\ InClients(ClientCache!StartGet(t, ClientKeyOf(t)))
       \/ task[t].op = "read" /\ InReads(ReadCache!StartGet(t, task[t].token))
       \/ task[t].op = "write" /\ InWrites(WriteCache!StartGet(t, task[t].token))
    /\ UNCHANGED <<token, task, made>>

Cached(t) ==
    /\ task[t].step = "lookup"
    /\ \/ task[t].op = "client" /\ InClients(ClientCache!Hit(t))
       \/ task[t].op = "read" /\ InReads(ReadCache!Hit(t))
       \/ task[t].op = "write" /\ InWrites(WriteCache!Hit(t))
    /\ End(t)
    /\ UNCHANGED <<token, made>>

\* A mutant of Missing: the creator of a KEK read cache makes its client at once.
MissingMutant(t) ==
    /\ task[t].step = "lookup"
    /\ \/ task[t].op = "client" /\ InClients(ClientCache!Miss(t))
       \/ task[t].op = "read" /\ InReads(ReadCache!Miss(t))
       \/ task[t].op = "write" /\ InWrites(WriteCache!Miss(t))
    /\ MoveTo(t, IF task[t].op = "write" THEN "build" ELSE "factory")
    /\ UNCHANGED <<token, made>>

Missing(t) ==
    /\ task[t].step = "lookup"
    /\ \/ /\ task[t].op = "client" /\ InClients(ClientCache!Miss(t))
          /\ MoveTo(t, "factory")
       \/ /\ task[t].op = "read" /\ InReads(ReadCache!Miss(t))
          /\ MoveTo(t, "build")
       \/ /\ task[t].op = "write" /\ InWrites(WriteCache!Miss(t))
          /\ MoveTo(t, "build")
    /\ UNCHANGED <<token, made>>
\* A mutant of FactoryReadsToken, which wants the token's lock to itself.
FactoryReadsTokenMutant(t) ==
    LET cell == Cell[task[t].config]
    IN  /\ task[t].step = "factory"
        /\ CanRead(cell) /\ Guards(cell) = {}
        /\ task' = [task EXCEPT ![t].step = "build", ![t].token = token[cell]]
        /\ UNCHANGED <<clientVars, readVars, writeVars, call, token, made>>

\* create_client reads the token with a read() of its own, which is recursive
\* for the thread.
FactoryReadsToken(t) ==
    LET cell == Cell[task[t].config]
    IN  /\ task[t].step = "factory"
        /\ CanRead(cell)
        /\ task' = [task EXCEPT ![t].step = "build", ![t].token = token[cell]]
        /\ UNCHANGED <<clientVars, readVars, writeVars, call, token, made>>

MadeBy(t) == [token |-> task[t].token, config |-> task[t].config]

Created(t, live) ==
    /\ task[t].step = "build"
    /\ \/ task[t].op = "client" /\ InClients(ClientCache!CreateOk(t, MadeBy(t), live))
       \/ task[t].op = "read" /\ InReads(ReadCache!CreateOk(t, MadeBy(t), live))
       \/ task[t].op = "write" /\ InWrites(WriteCache!CreateOk(t, MadeBy(t), live))
    /\ End(t)
    /\ UNCHANGED <<token, made>>

\* Only a KMS client factory can fail.
CreationFails(t) ==
    /\ task[t].step = "build" /\ task[t].op = "client"
    /\ InClients(ClientCache!CreateErr(t))
    /\ End(t)
    /\ UNCHANGED <<token, made>>

\* The factory panics, or, for any of the caches, the expiration overflows.
CreationPanics(t) ==
    /\ task[t].step = "build"
    /\ \/ task[t].op = "client" /\ InClients(ClientCache!CreatePanic(t))
       \/ task[t].op = "read" /\ task[t].cleans /\ InReads(ReadCache!CreatePanic(t))
       \/ task[t].op = "write" /\ task[t].cleans /\ InWrites(WriteCache!CreatePanic(t))
    /\ End(t)
    /\ UNCHANGED <<token, made>>

Expire ==
    /\ \/ \E k \in ClientKey : InClients(ClientCache!Expire({k}))
       \/ \E k \in KekCacheKey : InReads(ReadCache!Expire({k}))
       \/ \E k \in KekCacheKey : InWrites(WriteCache!Expire({k}))
    /\ UNCHANGED <<token, task, made>>

(***************************************************************************)
(* The whole.                                                              *)
(***************************************************************************)
\* What the manager's own code does of a call, and what the KMS factory does.
Proceed(t) ==
    \/ Refresh(t)
    \/ NotDue(t)
    \/ StartClear(t)
    \/ Sweep(t)
    \/ Abort(t)
    \/ ReadToken(t)
    \/ LookUp(t)
    \/ Cached(t)
    \/ Missing(t)

Create(t) ==
    \/ FactoryReadsToken(t)
    \/ \E live \in BOOLEAN : Created(t, live)
    \/ CreationFails(t)
    \/ CreationPanics(t)

Next ==
    \/ \E t \in Threads :
        \/ \E op \in Ops, c \in Configs, cleans \in BOOLEAN : BeginGet(t, op, c, cleans)
        \/ \E c \in Configs, tok \in Tokens : BeginRefresh(t, c, tok)
        \/ Proceed(t)
        \/ Create(t)
    \/ Expire

Spec == Init /\ [][Next]_vars

\* A thread that can go on does.  With finitely many calls to overtake it, weak
\* fairness is enough for a thread waiting for a mutex.  Nothing is promised of
\* the KMS; the creator of a KEK cache, which is the manager's own, returns.
FairSpec ==
    Spec /\ \A t \in Threads :
        WF_vars(Proceed(t)) /\ WF_vars(task[t].op \in KekOps /\ Create(t))

\* A KMS client factory returns or panics in the end.
KmsAnswers == \A t \in Threads : WF_vars(Create(t))

(***************************************************************************)
(* Safety.                                                                 *)
(***************************************************************************)
\* The comment at kms_manager.rs:52: a client is never filed under a token
\* other than the one its factory was given, however refreshes interleave with
\* its creation.
ClientsMatchTheirKeys ==
    \A k \in ClientKey :
        clients[k] # None =>
            /\ clients[k].value.token = k.key_access_token
            /\ Id[clients[k].value.config] = k.kms_instance_id

Answers(t, op) == task[t].op = op /\ call[t].at # "idle" /\ call'[t].outcome = "ok"
                    /\ task'[t].step = "idle"

\* The doc of refresh_key_access_token (kms/mod.rs:70): the client get_client
\* returns, cached or new, was made with the token in force when it returns.
ClientIsCurrent ==
    [][\A t \in Threads :
          Answers(t, "client") =>
              call'[t].value.token = token[Cell[task[t].config]]]_vars

\* A panic in a factory, which poisons the client cache, does not reach the
\* KEK calls of callers without a cache lifetime: they panic only when their
\* own cache was poisoned.
PanicsContained ==
    [][\A t \in Threads :
          /\ task[t].op \in KekOps /\ ~task[t].cleans
          /\ call[t].at # "idle" /\ call'[t].outcome = "panicked"
          => IF task[t].op = "read" THEN readsPoisoned ELSE writesPoisoned]_vars

\* The lock that the next step of a call takes is free: the mutex of the cache
\* it clears or has asked, or the lock of the token.  A creator returns.
MutexFree(t) ==
    /\ Uses(t, "clients", "client") => clientsHolder = None
    /\ Uses(t, "reads", "read") => readsHolder = None
    /\ Uses(t, "writes", "write") => writesHolder = None

CanGoOn(t) ==
    LET cell == Cell[task[t].config]
    IN  CASE task[t].step = "refresh" -> Guards(cell) = {}
          [] task[t].step \in {"token", "factory"} -> CanRead(cell)
          [] task[t].step \in Clearing \cup {"lookup"} -> call[t].at = "idle" \/ MutexFree(t)
          [] OTHER -> TRUE

\* get_client keeps the token's lock and a mutex at once (kms_manager.rs:54).  As long
\* as no refresh keeps readers of the token out, calls nevertheless do not wait for one
\* another in a circle: when one waits, some call that has read its token can go on.
\* When a KEK call that does not clear the caches waits, that is one which makes a KEK
\* cache of its kind, so that it never waits for the KMS.
NoCallIsStuck ==
    (\A cell \in Cells : CanRead(cell)) =>
        \A t \in Threads : task[t].step # "idle" /\ ~CanGoOn(t) =>
            \E s \in Threads :
                /\ CanGoOn(s) /\ task[s].step \in {"lookup", "factory", "build"}
                /\ task[t].op \in KekOps /\ ~task[t].cleans =>
                      task[s].op = task[t].op /\ task[s].step = "build"

(***************************************************************************)
(* Liveness.                                                               *)
(***************************************************************************)
\* Every call returns if the KMS answers: no order of the token's lock and of
\* the caches' mutexes leaves threads waiting for one another.
CallsEnd ==
    KmsAnswers => \A t \in Threads : (task[t].step # "idle") ~> (task[t].step = "idle")

\* A KMS that does not answer holds up get_client and those who clear caches,
\* but not the KEK calls of callers without a cache lifetime.
KekCallsDoNotNeedKms ==
    \A t \in Threads :
        (task[t].op \in KekOps /\ ~task[t].cleans) ~> (task[t].step = "idle")

\* The doc of refresh_key_access_token (kms/mod.rs:72), "Refreshing the access
\* token will cause new KMS client instances to be created when needed": a
\* refresh takes effect, if the KMS answers.
RefreshReturns ==
    KmsAnswers => \A t \in Threads : (task[t].step = "refresh") ~> (task[t].step = "idle")
================================================================================
