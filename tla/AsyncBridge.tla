----------------------------- MODULE AsyncBridge -----------------------------
(***************************************************************************)
(* The asynchronous KMS clients (kms/async_impl): a CryptoFactory made by  *)
(* new_async gives its synchronous caches a factory whose clients re-enter *)
(* the async runtime, and block the thread they are called on until the    *)
(* future of the KMS is done.                                              *)
(*                                                                         *)
(* Calls are tasks that retrieve or make one key each.  A task runs on a   *)
(* worker of the runtime when it was spawned, and otherwise on a thread    *)
(* that entered the runtime with block_on, as the tests do.  The mutexes   *)
(* of the KEK caches and of the client cache are std mutexes: a task that  *)
(* waits for one occupies its worker, and the task that has it may be      *)
(* waiting for a KMS that needs a worker to answer.                        *)
(*                                                                         *)
(* Inside the caches calls take the steps that KmsManager, KeyWrapper and  *)
(* KeyUnwrapper describe in detail; nothing expires here.                  *)
(***************************************************************************)
EXTENDS Naturals, FiniteSets, TestKms

CONSTANTS
    Calls,      \* tasks that share the CryptoFactory
    Op,         \* what each does: "write" or "read"
    Master,     \* the master key of each
    Kek,        \* the name of its KEK in the KEK cache, None if wrapped singly
    Config,     \* its connection configuration
    MaxWorkers, \* bound on the workers of a runtime
    Runtimes,   \* the ways of re-entering a runtime that are considered
    Waits,      \* what the futures of the KMS are considered to wait for
    None

ASSUME CallsAssumption ==
    /\ IsFiniteSet(Calls)
    /\ \A c \in Calls : Op[c] \in {"write", "read"}
    /\ \A c, d \in Calls : Op[c] = Op[d] /\ Kek[c] = Kek[d] /\ Kek[c] # None =>
          Master[c] = Master[d]
    /\ None \notin Calls
    /\ MaxWorkers \in Nat \ {0}

\* new_async_with_async_std, new_async_with_smol and new_async_with_tokio.
Kinds == {"async-std", "smol", "tokio"}

\* A future is ready at once, or waits for a reactor to report its I/O, or for
\* another task of the runtime, a connection's for instance.
Futures == {"nothing", "io", "task"}

ASSUME RuntimesAssumption == Runtimes \subseteq Kinds /\ Waits \subseteq Futures

VARIABLES
    runtime,  \* the runtime, the KMS and which calls are spawned; never changes
    at,       \* the step each call is at
    core,     \* whether each call has a worker, or handed it over to re-enter
    holder,   \* who is inside each mutex
    poisoned, \* the mutexes that are poisoned
    clients,  \* the configs that have a client in the client cache
    keks      \* the KEKs in the KEK write cache and the KEK read cache

vars == <<runtime, at, core, holder, poisoned, clients, keks, kms>>

Mutexes == {"clients", "write", "read"}
Ends == {"done", "failed", "panicked"}
Steps == {"idle", "kek", "client", "create", "call", "kms"} \cup Ends
Runtime == [kind: Runtimes, suits: BOOLEAN, workers: 1 .. MaxWorkers,
            waits: Waits, spawned: SUBSET Calls]

Keks(op) == {Kek[c] : c \in {d \in Calls : Op[d] = op}} \ {None}

\* The types of the variables.
TypeOK ==
    /\ runtime \in Runtime
    /\ at \in [Calls -> Steps]
    /\ core \in [Calls -> {"none", "held", "handed"}]
    /\ holder \in [Mutexes -> Calls \cup {None}]
    /\ poisoned \subseteq Mutexes
    /\ clients \subseteq {Config[c] : c \in Calls}
    /\ keks.write \subseteq Keks("write") /\ keks.read \subseteq Keks("read")
    /\ kms.keys_wrapped \in Nat /\ kms.keys_unwrapped \in Nat
    /\ \A i \in DOMAIN kms.invocations : kms.invocations[i] \in {Config[c] : c \in Calls}

\* CryptoFactory::new_async with a bridge to the factory of the KMS.
Init ==
    /\ runtime \in Runtime
    /\ at = [c \in Calls |-> "idle"]
    /\ core = [c \in Calls |-> "none"]
    /\ holder = [m \in Mutexes |-> None]
    /\ poisoned = {}
    /\ clients = {}
    /\ keks = [write |-> {}, read |-> {}]
    /\ kms = NewKms

(***************************************************************************)
(* Workers.  Whoever has its worker, running or waiting, occupies it.      *)
(***************************************************************************)
AWorkerIsFree == Cardinality({c \in Calls : core[c] = "held"}) < runtime.workers

Start(c) ==
    /\ at[c] = "idle"
    /\ c \in runtime.spawned => AWorkerIsFree
    /\ core' = [core EXCEPT ![c] = IF c \in runtime.spawned THEN "held" ELSE "none"]
    /\ at' = [at EXCEPT ![c] = IF Kek[c] = None THEN "client" ELSE "kek"]
    /\ UNCHANGED <<runtime, holder, poisoned, clients, keks, kms>>

(***************************************************************************)
(* ReenterAsync.  Tokio's block_in_place hands the worker over to another  *)
(* thread; it panics in a runtime with one thread, and Handle::current     *)
(* outside of any.  The others block the worker they are called on.        *)
(***************************************************************************)
Suits == runtime.kind = "tokio" => runtime.suits

\* As a reenter that waits for a thread of its own to block_on, and so keeps the
\* worker.
HandedOverMutant(c) == core[c]

HandedOver(c) ==
    IF runtime.kind = "tokio" /\ core[c] = "held" THEN "handed" ELSE core[c]

\* Handle::block_on leaves I/O to the workers, where the block_on of the others
\* runs the reactor itself.  Tasks are run by workers only.
KmsCanRun ==
    CASE runtime.waits = "nothing" -> TRUE
      [] runtime.waits = "io" -> runtime.kind = "tokio" => AWorkerIsFree
      [] runtime.waits = "task" -> AWorkerIsFree

\* Back from block_in_place the worker is taken back if no thread has begun to
\* run it; otherwise the call goes on without one.
GivesBack(c) ==
    \/ core' = [core EXCEPT ![c] = IF @ = "handed" THEN "none" ELSE @]
    \/ core[c] = "handed" /\ AWorkerIsFree /\ core' = [core EXCEPT ![c] = "held"]

(***************************************************************************)
(* The end of a call: its mutexes are dropped, and poisoned in a panic.    *)
(***************************************************************************)
HeldBy(c) == {m \in Mutexes : holder[m] = c}

End(c, how) ==
    /\ at' = [at EXCEPT ![c] = how]
    /\ core' = [core EXCEPT ![c] = "none"]
    /\ holder' = [m \in Mutexes |-> IF holder[m] = c THEN None ELSE holder[m]]
    /\ poisoned' = poisoned \cup (IF how = "panicked" THEN HeldBy(c) ELSE {})
    /\ UNCHANGED runtime

Reenter(c, step) ==
    /\ Suits
    /\ at' = [at EXCEPT ![c] = step]
    /\ core' = [core EXCEPT ![c] = HandedOver(c)]
    /\ UNCHANGED <<runtime, poisoned>>

(***************************************************************************)
(* A call: the KEK cache, the client cache, the KMS.                       *)
(***************************************************************************)
MayLock(m) == holder[m] = None /\ m \notin poisoned

KekIsCached(c) == Kek[c] \in keks[Op[c]]

UseKek(c) ==
    /\ at[c] = "kek" /\ MayLock(Op[c]) /\ KekIsCached(c)
    /\ End(c, "done")
    /\ UNCHANGED <<clients, keks, kms>>

\* As a wrap or unwrap that does not keep the KEK cache locked meanwhile.
MissKekMutant(c) ==
    /\ at[c] = "kek" /\ MayLock(Op[c]) /\ ~KekIsCached(c)
    /\ at' = [at EXCEPT ![c] = "client"]
    /\ UNCHANGED <<runtime, core, holder, poisoned, clients, keks, kms>>

MissKek(c) ==
    /\ at[c] = "kek" /\ MayLock(Op[c]) /\ ~KekIsCached(c)
    /\ holder' = [holder EXCEPT ![Op[c]] = c]
    /\ at' = [at EXCEPT ![c] = "client"]
    /\ UNCHANGED <<runtime, core, poisoned, clients, keks, kms>>

UseClient(c) ==
    /\ at[c] = "client" /\ MayLock("clients") /\ Config[c] \in clients
    /\ at' = [at EXCEPT ![c] = "call"]
    /\ UNCHANGED <<runtime, core, holder, poisoned, clients, keks, kms>>

\* As a get_client that does not keep the cache locked while it makes a client.
MissClientMutant(c) ==
    /\ at[c] = "client" /\ MayLock("clients") /\ Config[c] \notin clients
    /\ Reenter(c, "create")
    /\ UNCHANGED <<holder, clients, keks, kms>>

\* BridgeKmsClientFactory::create_client, called with the client cache locked.
MissClient(c) ==
    /\ at[c] = "client" /\ MayLock("clients") /\ Config[c] \notin clients
    /\ Reenter(c, "create")
    /\ holder' = [holder EXCEPT !["clients"] = c]
    /\ UNCHANGED <<clients, keks, kms>>

\* The factory's future is done; a BridgeKmsClient around its client is cached.
ClientMade(c) ==
    /\ at[c] = "create" /\ KmsCanRun
    /\ CreateClient(Config[c])
    /\ clients' = clients \cup {Config[c]}
    /\ holder' = [holder EXCEPT !["clients"] = None]
    /\ at' = [at EXCEPT ![c] = "call"]
    /\ GivesBack(c)
    /\ UNCHANGED <<runtime, poisoned, keks>>

\* BridgeKmsClient::wrap_key and unwrap_key.
CallKms(c) ==
    /\ at[c] = "call"
    /\ Reenter(c, "kms")
    /\ UNCHANGED <<holder, clients, keks, kms>>

\* The key or KEK of a reader, as its file has it.
Stored(c) == Wrapped(Kek[c], Master[c])

Answer(c) ==
    IF Op[c] = "write" THEN Wrapped(Kek[c], Master[c]) ELSE Unwrapped(Stored(c), Master[c])

\* As a caller that would file every key it got as a KEK.
KmsAnswersMutant(c) ==
    /\ at[c] = "kms" /\ KmsCanRun /\ Answer(c) # Err
    /\ IF Op[c] = "write" THEN CountWrap(Master[c]) ELSE CountUnwrap(Stored(c), Master[c])
    /\ keks' = [keks EXCEPT ![Op[c]] = @ \cup {Kek[c]}]
    /\ End(c, "done")
    /\ UNCHANGED clients

KmsAnswers(c) ==
    /\ at[c] = "kms" /\ KmsCanRun /\ Answer(c) # Err
    /\ IF Op[c] = "write" THEN CountWrap(Master[c]) ELSE CountUnwrap(Stored(c), Master[c])
    /\ keks' = IF Kek[c] = None THEN keks ELSE [keks EXCEPT ![Op[c]] = @ \cup {Kek[c]}]
    /\ End(c, "done")
    /\ UNCHANGED clients

\* A future is done with an Err: the KMS does not have the master key, or cannot
\* be reached.
KmsFails(c) ==
    /\ at[c] \in {"create", "kms"} /\ KmsCanRun
    /\ End(c, "failed")
    /\ UNCHANGED <<clients, keks, kms>>

\* A future panics, and block_on with it; or the runtime does not suit.
Panics(c) ==
    /\ \/ at[c] \in {"create", "kms"} /\ KmsCanRun
       \/ at[c] = "call" /\ ~Suits
    /\ End(c, "panicked")
    /\ UNCHANGED <<clients, keks, kms>>

\* The factory's reenter panics, in the mutex of the client cache.
CreationPanics(c) ==
    /\ at[c] = "client" /\ MayLock("clients") /\ Config[c] \notin clients /\ ~Suits
    /\ at' = [at EXCEPT ![c] = "panicked"]
    /\ core' = [core EXCEPT ![c] = "none"]
    /\ holder' = [m \in Mutexes |-> IF holder[m] = c THEN None ELSE holder[m]]
    /\ poisoned' = poisoned \cup HeldBy(c) \cup {"clients"}
    /\ UNCHANGED <<runtime, clients, keks, kms>>

\* lock().unwrap() of a poisoned mutex.
Reject(c) ==
    /\ \/ at[c] = "kek" /\ Op[c] \in poisoned
       \/ at[c] = "client" /\ "clients" \in poisoned
    /\ End(c, "panicked")
    /\ UNCHANGED <<clients, keks, kms>>

Proceed(c) ==
    \/ Start(c)
    \/ UseKek(c)
    \/ MissKek(c)
    \/ UseClient(c)
    \/ MissClient(c)
    \/ ClientMade(c)
    \/ CallKms(c)
    \/ KmsAnswers(c)
    \/ KmsFails(c)
    \/ Panics(c)
    \/ CreationPanics(c)
    \/ Reject(c)

Next == \E c \in Calls : Proceed(c)

Spec == Init /\ [][Next]_vars

\* A task that can run does, and a future that can be run is done in the end.
FairSpec == Spec /\ \A c \in Calls : WF_vars(Proceed(c))

(***************************************************************************)
(* Safety.                                                                 *)
(***************************************************************************)
\* The tests count what the asynchronous KMS was asked (async_round_trip.rs): one
\* client for each config and one call for each KEK, however many tasks needed it
\* and whatever became of them, and one for each key that is wrapped singly.
KmsAskedOnce ==
    LET Single(op) == {c \in Calls : Op[c] = op /\ Kek[c] = None /\ at[c] = "done"}
    IN  /\ Len(kms.invocations) = Cardinality(clients)
        /\ kms.keys_wrapped = Cardinality(keks.write) + Cardinality(Single("write"))
        /\ kms.keys_unwrapped = Cardinality(keks.read) + Cardinality(Single("read"))

\* The runtime has a worker to spare for the KMS when all the other spawned calls
\* wait for the one it is asked by; that one needs no worker with tokio.
Enough ==
    IF runtime.kind = "tokio"
    THEN \A c \in Calls : Cardinality(runtime.spawned \ {c}) < runtime.workers
    ELSE Cardinality(runtime.spawned) < runtime.workers

\* While a call waits for the KMS, the other tasks of such a runtime still have a
\* worker, although calls that wait for the mutexes behind it block theirs: what
\* block_in_place is for.
OthersHaveAWorker ==
    Enough /\ (\E c \in Calls : at[c] \in {"create", "kms"}) => AWorkerIsFree

(***************************************************************************)
(* Liveness.                                                               *)
(***************************************************************************)
Ended(c) == at[c] \in Ends

\* Every call ends, with a key, an error or a panic: on any runtime when the
\* futures of the KMS need nothing of it, with async-std and smol also when they
\* wait for I/O, and in all cases when there are workers enough.
CallsEnd ==
    LET Served == \/ runtime.waits = "nothing"
                  \/ runtime.waits = "io" /\ runtime.kind # "tokio"
                  \/ Enough
    IN  Served => \A c \in Calls : <>Ended(c)

\* What the doc of new_async_with_tokio says of a multi-threaded runtime
\* (crypto_factory.rs:353-357): it is for use there, and panics elsewhere.  With
\* fewer workers than calls they may wait for one another for ever.
CallsEndOnTokio ==
    runtime.kind = "tokio" /\ runtime.suits => \A c \in Calls : <>Ended(c)

(***************************************************************************)
(* Refinement: with the runtime taken away the calls use the KEK caches as *)
(* KekCaches says.                                                         *)
(***************************************************************************)
KekCache == {"write", "read"}
KekNames == Keks("write") \cup Keks("read")

keksBar ==
    [op \in KekCache |-> [name \in KekNames |-> IF name \in keks[op] THEN name ELSE None]]

Abstract == INSTANCE KekCaches WITH
    Caches <- KekCache, Users <- Calls, Names <- KekNames,
    KeksFor <- [name \in KekNames |-> {name}],
    keks <- keksBar, holder <- [op \in KekCache |-> holder[op]],
    poisoned <- poisoned \ {"clients"}

\* Also under a runtime a KEK is stored by the call that has had the mutex since it
\* found none, whatever it was made to wait for.
ImplementsKekCaches == Abstract!KCSpec
==============================================================================
