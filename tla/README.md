# Verification of parquet-key-management

TLA+ models of the Rust crate `parquet-key-management`, which makes and finds the
encryption keys of Parquet files with a key management service (KMS): what several
threads, a KMS that fails or does not answer, an expiring cache, an async runtime and an
access token that is refreshed in between can do to it.  TLC checks the models on small
instances, and TLAPS proves all of the safety properties, among them that locks are not
waited for in a circle, and that the detailed models implement the abstract ones, for every
value of the constants.

All paths below are relative to `src/parquet-key-management/src/`.

## 1. Inventory

| Component | State | Operations | Who uses it |
|---|---|---|---|
| `ExpiringCache` (`kms_manager.rs:110-194`) | a map behind a `Mutex`, each value with an expiration instant; `last_cleanup` behind a second `Mutex` | `get_or_create`, which runs the creator inside the mutex; `clear_expired` | `KmsManager`, three times |
| `KmsManager` (`kms_manager.rs:27-108`) | the cache of KMS clients by token and instance id, the caches of KEK read and write caches by token | `get_client`, `get_kek_read_cache`, `get_kek_write_cache`, `clear_expired_entries` | wrappers and unwrappers of every thread |
| `KmsConnectionConfig` (`kms/mod.rs`) | instance id and URL, passed on in an `Arc` that `make_mut` copies when it is shared; the access token behind an `Arc<RwLock>` that copies share | the builder, `refresh_key_access_token`, `read_key_access_token` | `KmsManager`, the client factory, unwrappers, the application |
| `KeyWrapper`, `file_encryption_properties` (`key_wrapper.rs`, `crypto_factory.rs:382-443`) | the KEK write cache of a token: master key to KEK, behind a `Mutex` that is kept while the KMS wraps | `get_key_metadata` for the footer, then the columns | one per file written |
| `KeyUnwrapper`, `file_decryption_properties` (`key_unwrapper.rs`) | its KEK read cache, KEK id to KEK, behind a `Mutex`; its `Arc` of the configuration behind an `RwLock` | `retrieve_key`, a callback of the Parquet reader | readers of one file or of several |
| Key material and its encryption (`key_material.rs`, `key_encryption.rs`) | none | the builder, JSON, AES-GCM with the KEK id as additional data | wrapper and unwrapper |
| `EncryptionConfiguration`, `DecryptionConfiguration` (`crypto_factory.rs:18-260`) | key ids and their columns, cache lifetimes, flags | the builders, `build` | the application, DataFusion |
| DataFusion integration (`datafusion.rs`) | the options a session keeps, by name | options to configuration and back, for every file again | DataFusion |
| Async bridge (`kms/async_impl/`) | none of its own; its clients keep the factory's, and a worker of the runtime is handed over or blocked while they are called, under the mutexes above | `create_client`, `wrap_key`, `unwrap_key`, each re-entering the runtime | `CryptoFactory::new_async*` |
| Test KMS (`test_kms/`) | the configurations clients were made with, counts of keys | `create_client`, `wrap_key`, `unwrap_key`, and their async form | the tests |
| Crate root, file generator | none | none | |

How they meet: a file's wrapper or unwrapper asks `KmsManager` for a KEK cache once and
for a client whenever it needs the KMS.  Both questions take the mutex of one of the three
caches, after the read lock of the token; `get_client` keeps that read lock, and the mutex
of the client cache, while the factory runs, and the factory reads the token again.  A KEK
cache has a mutex of its own, which is kept across `get_client` and the KMS call.  With an
async KMS all of this is on the stack of a task, whose worker is re-entered from there.
Writers and readers meet in files only: key material with wrapped keys, and in the footer
the instance they were wrapped in.

What is hard here, and what makes each part correct:

- `ExpiringCache`: the creator may take long, fail or panic inside the mutex while the
  clock runs on.  One value at a time must be made for a key, nothing served after its
  lifetime, and advancing `last_cleanup` before the sweep must not lose an entry.
- `KmsManager`: the token may change between its two reads.  A client must be filed under
  the token it was made with, and no order of token lock and mutexes may leave threads
  waiting for one another.
- `KeyWrapper`: files written at once share KEKs.  There must be one per master key, its
  id must stand for it alone, and what is written must be readable.
- `KeyUnwrapper`: files read at once share KEKs and complete one configuration.  Neither
  may disturb a reader whose file is good.
- `KmsConnectionConfig`: unwrappers share it with the application.  What they change must
  stay their own, and a refresh must still reach them.
- Async bridge: std mutexes are held across an await.  Tasks that wait for them must leave
  the runtime enough workers to finish the one that has them.
- Configurations: a column has one key, and what the options of DataFusion can express
  survives them.

The hazards, each at its line with the properties that cover it, are in `PROJECT.json`.

## 2. Modules

| Module | Models | Checked with | Proved in |
|---|---|---|---|
| `LockedCache` | what `ExpiringCache` promises, without a clock: an entry is live until it expires at some moment | `ImplementsLockedCache` | |
| `ExpiringCache` | the cache with its clock | `MCExpiringCache` | `ExpiringCacheProofs` |
| `KmsManager` | the manager and the token, over three instances of `LockedCache` | `MCKmsManager` | `KmsManagerProofs` |
| `KekCaches` | what the KEK caches promise to writers, readers and async calls alike | `ImplementsKekCaches` of those three | |
| `KeyMaterial` | key material, AES-GCM and the KMS, as symbols (operators only), and what a good set of files is (`WellWritten`) | through the next three | |
| `KmsConnection` | configs, the `Arc`s and the token cells they share | through `KeyUnwrapper` | |
| `KeyWrapper` | writers of files | `MCKeyWrapper` | `KeyWrapperProofs` |
| `KeyUnwrapper` | readers of files | `MCKeyUnwrapper` | `KeyUnwrapperProofs`, `KeyUnwrapperReadProofs` |
| `TestKms` | the KMS of the tests | through `AsyncBridge` | |
| `AsyncBridge` | calls of an async KMS on the workers of a runtime | `MCAsyncBridge` | `AsyncBridgeProofs` |
| `Texts` | a map of key ids to columns as a text, and back (operators only) | through `Configuration` | `TextsProofs` |
| `Configuration` | the builders, options and conversions | `MCConfiguration` | `ConfigurationProofs` |

**ExpiringCache.**  `cache`, `holder` and `poisoned` are the mutex with the map in it,
`lastCleanup` the other mutex, whose critical section has no step inside it.  `now` grows in
any state, also while a creator or a sweep runs, so a value's expiration is counted from
when it was made (`Expiration`), and a sweep compares each entry with a `now()` between
`started` and its end (`SweepDone`).  `CreateErr` is the `?`, `CreatePanic` the panic of a
creator or of `now() + d` out of range, `Reject` what `lock().unwrap()` does after it.
`born` is a history variable.  Storing a value happens in `CreateOk` with the unlock.

**LockedCache.**  The same calls; `Expire` may end the life of entries at any moment, and a
sweep is one step.  The refinement mapping, at the end of `ExpiringCache.tla`, makes an entry
live when `IsValid` holds, and lets a sweep take effect when it ends.  `KmsManager` is built
on this module, so that the manager needs no clock.

**KekCaches.**  A map from names to KEKs behind a mutex, which a user keeps from finding a KEK
missing until it stores one (`Store`), gives up or panics.  The code has such a map twice,
keyed by master key in `key_wrapper.rs` and by KEK id in `key_unwrapper.rs`; the module is
what the two have in common, without the KMS, files, configurations and runtimes around them.
`KeyWrapper` and `KeyUnwrapper` have the same variables and give `Names` and `KeksFor` a
meaning; `AsyncBridge`, which keeps only the names of KEKs, maps its sets of names to it
(`keksBar`).  As all three implement it, the short steps that `AsyncBridge` takes
in the caches do to them what the detailed ones of the other two do.

**KmsManager.**  A thread's `task` is the call it is in and how far it is: three cleanups
(each due or not), the token, the lookup, the factory, storing.  Only callers with a cache
lifetime clean up.  A write of the token is over in the step that begins it; `Guards` are the
read guards of `get_client`.  `WritersFirst` says whether a waiting writer keeps new readers
out: `std::sync::RwLock` leaves that to the platform, and on Linux it does.  The factory
is the one of `test_kms/mod.rs`: it reads the token from the config it is given.

**KeyWrapper, KeyUnwrapper.**  `live` is the manager's cache of KEK caches, by token; a KEK
cache is a number, which stays in use by those who took it after it has expired.  The KMS
call under the KEK mutex is a step of its own (`wrap`, `kekkms`), which ends well, with an
error or with a panic.  Footers carry instance id and URL (`Place`), columns do not.  In
`KeyUnwrapper` a reader's file is any of `MayRead`, `ConfigReaders` are the holders of read
guards of the configuration, and a footer waiting in `update` keeps new ones out.
Ciphertexts are symbols (`KeyMaterial`) that open only with the key, the additional data, the
instance and the master key they were made with.  `WellWritten` is the interface between the
two: the reader assumes it of its files (`FilesAssumption`), and the writer is proved to
keep it (`WrittenAsRead`).

**KmsConnection.**  `heap` holds the configs, those the application built and the copies of
unwrappers; `arc` is what each unwrapper points to.  The application keeps the `Arc`s of
`Kept` and gives the others away, so that `MakeMut` copies or changes in place as
`Arc::make_mut` does.  A config's `key_access_token` names a cell of `token`, which copies
share.  `KeyUnwrapper` extends this module: `NewUnwrapper` passes an `Arc` on, `UpdateConfig`
is the `make_mut`, and `Refresh` may come at any time.

**AsyncBridge, TestKms.**  `core` says who occupies a worker of the runtime: `Reenter` hands
it over with Tokio's `block_in_place`, and keeps it with async-std and smol.  `KmsCanRun`
says when the future of the KMS can go on, which depends on what it waits for and on the
runtime; `GivesBack` is the end of `block_in_place`.  The mutexes are those of the KEK and
client caches in the order in which `KeyWrapper`, `KeyUnwrapper` and `KmsManager` take them.  The
KMS is the one of the tests, with its counts; its futures may also wait, fail and panic.

**Texts, Configuration.**  A text is a sequence of words and delimiters, so that what splitting
and joining do to a name with a delimiter in it can be seen; `Texts` has the two ways between
such a text and a map, `datafusion.rs:237-289`.  A `HashMap` gives its keys in any order
(`Orders`).  Durations are seconds and nanoseconds, as in Rust.  A session keeps those
entries that have a value, by their full names; they are set one by one over the defaults
(`ToExtensionOptions`) before a configuration is made of them, and a name that does not exist
or a value that does not parse refuses them.

## 3. What the runs check

| Run | What it shows |
|---|---|
| `cache` | Exactly the thread whose creator or sweep runs is inside the mutex (`HolderInside`).  What is served is the last value made, within its lifetime (`ServedFresh`); a second value is made only after that lifetime (`CreationsSpaced`).  Setting `last_cleanup` early leaves nothing behind (`NoLingering`).  The cache implements `LockedCache`.  Who is inside the mutex leaves it and returns, and after a panic no call hangs (`CallsReturn`). |
| `manager_safety` | A client is filed under the token its factory saw, and returned only while that token is in force.  A factory's panic does not reach KEK calls that do not clean up.  Calls wait in no circle, and KEK calls that do not clean up not for the KMS (`NoCallIsStuck`). |
| `manager_liveness` | Where readers do not wait for waiting writers, every call ends if the KMS answers, and KEK calls that do not clean up end even if it does not. |
| `manager_refresh_deadlock` | *Violated*: where they do wait, a refresh that comes between the two reads of the token never returns, nor does the `get_client`. |
| `writers` | One KEK per master key and cache; a KEK id stands for one KEK; every finished file can be read; the caches are used as `KekCaches` says; every file ends. |
| `writers_two_instances` | *Violated*: two configs with one token and two KMS instances share KEKs, and a file cannot be read at the instance its footer names. |
| `readers` | A KEK is unwrapped once per cache; a reader that is told the right instance gets its keys unless the KMS fails; the configuration is completed from one footer and then stays; the application's own never changes (`CallersConfigUntouched`), and its refreshes reach every copy (`RefreshReachesUnwrappers`); the caches are used as `KekCaches` says; of the readers of a cache at work one can go on (`NoReaderIsStuck`), and none hangs. |
| `readers_second_file` | *Violated*: the first file's footer decides for later files read through the same unwrapper. |
| `options_round_trip` | Whatever is built or entered, a column has one key.  Both configurations come back from the options as they were, if texts can express them, but for fractions of a second; what a first conversion changes, a second does not change again. |
| `options_repeated_key` | *Violated*: of a key with two entries in the options only the second counts, and the columns of the first are left without it. |
| `async_bridge` | The KMS is asked once for each client and each KEK, however many tasks need it (`KmsAskedOnce`).  With as many workers as `Enough` says the runtime always has one to spare while the KMS is asked (`OthersHaveAWorker`), and every call ends; under any runtime the KEK caches are used as `KekCaches` says; with fewer they end where the futures of the KMS do not need a worker (`CallsEnd`). |
| `async_workers` | *Violated*: on a multi-threaded Tokio runtime with fewer workers than calls, all may wait for one another. |

### Bounds

- `ExpiringCache`: two threads and two keys.  `MaxTime` 2 with lifetimes of none, 0 and 1
  lets a value expire, be made again and expire again, a sweep span an expiry, and, as
  `MaxInstant` is 2, an expiration overflow.  One value is enough, since `born` tells
  creations apart by their time and thread.  `MaxTime` is only TLC's bound: the theorems
  hold for every value of it.
- `KmsManager`: three threads with one call each are all the parties that meet at the token
  and the client cache (a creator, a refresh, another caller), with two configs that share a
  token; the liveness run has two threads with two calls each (`MaxCalls`), one config and
  one token value: what token values are does not change who waits for whom.
- `KeyWrapper`: three writers, of which two share a master key in different places and one
  wraps singly, a footer and a column; two tokens, `MaxCaches` 3, one per writer, so that
  the bound never stops one.
- `KeyUnwrapper`: three readers, two of which share an unwrapper; two unwrappers, made with
  either of two configs, one of which the application keeps and one, with a URL, that it gives
  away; two tokens, and `MaxCaches` 2, one per unwrapper.  Each reader has a choice of two
  files (`MayRead`): one of two doubly wrapped keys, one singly wrapped in another instance,
  one whose footer lacks a URL, so that readers of one unwrapper meet the same file, files of
  two instances, and an incomplete footer before or after a complete one.
- `Configuration`: three key ids, one with a colon in it, three column names, one with a comma,
  two columns per key; lifetimes of none, half a second and ten minutes; every text of up to
  four tokens and those of two well-formed entries; options with a wrong name, a wrong value
  or none.
- `AsyncBridge`: two writers that share a KEK and a reader of a singly wrapped key, which need
  the client cache together; one to three workers, every set of calls spawned or on a thread
  of its own, all three runtimes, futures that wait for nothing, for I/O or for a task.  So
  there are too few workers or enough, depending on how many calls are spawned.

In `KeyWrapper`, `KeyUnwrapper` and `KmsManager` work comes to an end, and what remains is
`Expire` and `Refresh`; `Configuration` stops when a configuration is refused; the calls of
`AsyncBridge` end, or wait for one another, which is what its liveness properties are about.
Only the runs of the last two say that they do not check for deadlock.

### Fairness

A thread that can go on does (`WF` of its steps).  Threads that wait for a mutex are not
promised that they get it before others, as `std::sync::Mutex` is not fair: `CallsReturn` of
`ExpiringCache` says what holds without it, and in the other modules each thread makes a
bounded number of calls, so it cannot be overtaken for ever.  For `KeyUnwrapper` it is
enough that some reader that can go on does.  In `KmsManager` nothing is assumed of the KMS
except where a property says `KmsAnswers`; in `ExpiringCache`, `KeyWrapper` and
`KeyUnwrapper` a creator or KMS call returns, fails or panics in the end; in `AsyncBridge` its
future does so when the runtime can run it.  Expiry, refreshes and new calls are never
promised.

## 4. What is proved

For every value of the constants that satisfies the assumptions named below.

**`ExpiringCacheProofs`**, for every set of threads, keys and values, every set of lifetimes
(naturals or `None`) and intervals, and any `MaxInstant` and `MaxTime`:

| Theorem | Says |
|---|---|
| `TypeCorrect`, `MutualExclusion`, `CleanupComplete` | `TypeOK`, `HolderInside` and `NoLingering` always hold |
| `Freshness`, `OneCreationAtATime` | `ServedFresh` and `CreationsSpaced` hold of every step |
| `Refinement` | `ExpiringCache` implements `LockedCache` |

The argument is one inductive invariant,
`IInv == TypeOK /\ HolderInside /\ ClockOK /\ HistoryOK /\ NoLingering`:

- `ClockOK`: `lastCleanup` and the starts of sweeps are not in the future.  `NoLingering`
  needs it when a sweep starts: an entry that had expired by `lastCleanup` has expired now.
- `HistoryOK`: an entry is the last value made, with its lifetime; a key without an entry,
  or one whose creator is running, has seen its last value expire.  The second part
  is what `CreationsSpaced` comes down to, and it is kept only because nobody else gets inside
  the mutex (`HolderInside`) and the clock does not run back (`ElapsedStays`).
- `NoLingering` is inductive with these: only an entry made with lifetime zero or one
  that expires during a sweep could escape, and neither lies before `lastCleanup`.

The steps of the refinement are proved from `IInv` and `IInv'`: each action maps to the one
of the same name, a clock tick to an expiry of the entries it ends or to a stutter, the start
of a sweep to a stutter, its end to `Sweep`.

**`KeyWrapperProofs`**, for any number of writers, columns, master keys, tokens and instances:

| Theorem | Says |
|---|---|
| `TypeCorrect`, `OneKek`, `KekIdsUnambiguous` | `TypeOK`, `OneKekPerMasterKey` and `KekIdsAreUnambiguous` always hold |
| `Readable` | where all writers use one KMS instance, `FilesAreReadable` always holds |
| `WrittenAsRead` | there, the files that are done are always `WellWritten` |
| `Refinement` | `KeyWrapper` implements `KekCaches` |

`IInv == TypeOK /\ MutexOK /\ KeksOK /\ HistoryOK /\ FilesOK /\ DoneOK`.  A writer that waits
for the KMS is inside the mutex of its cache, for a master key that has no KEK there
(`MutexOK`); so storing one never replaces another, and a KEK that a finished key was wrapped
with is still the one in the cache (`KeksOK`, `HistoryOK`).  `FilesOK` says what each key
material was made of, whoever made its KEK; `DoneOK` that a finished file has all its keys.
Readability needs `SameInstance`: `FilesOK` knows the KEK's maker but not that it used the
instance this file's footer names, and `writers_two_instances` shows that it need not.

**`KeyUnwrapperProofs`, `KeyUnwrapperReadProofs`**, for any readers, unwrappers, configs,
tokens and well-written files:

| Theorem | Says |
|---|---|
| `TypeCorrect`, `OneUnwrap`, `RefreshReaches` | `TypeOK`, `OneUnwrapPerKek` and `RefreshReachesUnwrappers` always hold |
| `ConfigUntouched`, `Settles` | `CallersConfigUntouched` and `ConfigSettles` hold of every step |
| `NobodyStuck` | `NoReaderIsStuck` always holds: the locks are not waited for in a circle |
| `FilesAreRead` | `ReadableFilesAreRead` always holds |
| `OneFooters` | `ConfigIsOneFooters` always holds |
| `Refinement` | `KeyUnwrapper` implements `KekCaches` |

`IInv == TypeOK /\ ConfigsOK /\ ReadersOK /\ MutexOK /\ HistoryOK /\ OneUnwrapPerKek`.
`ConfigsOK` is about the heap: an unwrapper points to the config it was made with or to a
copy of its own, and either names the source's token cell.  That is why a change in place
disturbs nobody, and why a refresh reaches all.
`HistoryOK` ties what the KMS unwrapped to what is in the caches, so that a reader that
misses a KEK knows nobody has unwrapped it for this cache.  `NobodyStuck` follows from
`MutexOK`: who is in the mutex wants nothing more but to read the configuration, who reads it
may have to wait for a footer that writes it, and that one for readers of it that are with the
KMS, whose calls end.  It is the order of the locks that matters here, mutex before
configuration, and not how many readers, unwrappers and caches there are.  The second module adds
`RInv == SourcesOK /\ LateOK /\ KeksOK /\ ReadableFilesAreRead`: what an unwrapper's id and
URL come from, starting with configs that are as they were built; that a reader past its
update finds a complete configuration; and that a KEK in a cache is the one its id stands for
in every file.  The last is where `FilesAssumption` is needed, and `WrittenAsRead` is what
guarantees it for the files of one factory's writers.

**`KmsManagerProofs`**, for any threads, configs, token cells and tokens, whether waiting
writers keep readers out or not, and any number of calls:

| Theorem | Says |
|---|---|
| `TypeCorrect`, `ClientsMatch` | `TypeOK` and `ClientsMatchTheirKeys` always hold |
| `ClientsCurrent`, `Contained` | `ClientIsCurrent` and `PanicsContained` hold of every step |
| `NobodyStuck` | `NoCallIsStuck` always holds: but for a refresh that keeps readers of the token out, nothing is waited for in a circle |

`IInv == CachesOK /\ ThreadsOK /\ MadeOK /\ ClientsMatchTheirKeys`.  `ThreadsOK` is what the
properties need and do not say.  A thread's place in a cache goes with the step of its task,
and with the key it looked up (`StepOK`): the three caches are instances of one module and
share `call`, so that only the task tells which of them a thread is in.  And the token that
`get_client` looked up stays the one in force until it returns (`GuardOK`), because a refresh
waits for the read guards; so the token the factory reads, later and on its own, is the one in
the key.  A thread that does not clean up comes to one mutex, that of its own cache, which is
why a panic in the client cache cannot reach its KEK calls.

`NobodyStuck` needs one fact more, `HoldersOK`, which is inductive with `IInv`: inside the mutex
of a cache is a thread that makes something for it.  A refresh waits for `get_client`s with
their read guard, a call that wants a mutex for the one that makes something there, and that
one for nobody, as long as the token can be read.  The hypothesis cannot be dropped, as
`manager_refresh_deadlock` shows.  Whether a thread can go on is spelled out in `CanGoOn`, since
the prover does not do `ENABLED`.  On the instances of the runs TLC finds it equal to
`ENABLED (Proceed(t) \/ Create(t))` for every thread in a call, and to `ENABLED Proceed(r)` for
every reader at work (these invariants are not among the runs' properties).

**`AsyncBridgeProofs`**, for any finite set of calls and any number of workers, with the three
runtimes:

| Theorem | Says |
|---|---|
| `TypeCorrect` | `TypeOK` always holds |
| `AskedOnce` | `KmsAskedOnce` always holds |
| `WorkerToSpare` | `OthersHaveAWorker` always holds |
| `Refinement` | `AsyncBridge` implements `KekCaches` |

`IInv == TypesOK /\ (\A c \in Calls : LocksOK(c) /\ WorkersOK(c)) /\ KmsAskedOnce`.  By `LocksOK`
a call that asks the KMS for a KEK or a client has the mutex, and what it is about to
store is not there; so every count grows with one set, and `KmsAskedOnce` needs only that
their cardinalities are counted rightly (`AnswerInv`, with the library's facts about finite
sets).  `WorkersOK` says who occupies a worker: only spawned calls, and with Tokio not the
one that waits for the KMS.  `WorkerToSpare` is then a comparison of two cardinalities.

The three refinements of `KekCaches` map a step that leaves the mutexes and KEKs alone to a
stutter, a miss to `Miss`, and the end of a call that was inside to `Store`, `GiveUp` or
`Panic`.  What needs an invariant is that a KEK is stored by the user inside the mutex, under
a name that still has none (`MutexOK`, `LocksOK`), and in `AsyncBridge`, where `End` drops
whatever mutexes a call has, that it has one KEK cache at most, its own (`HeldOK`).

**`ConfigurationProofs`**, for any key ids, columns, texts and options, and all durations:

| Theorem | Says |
|---|---|
| `TypesHold` | `TypeOK` always holds: whatever a session says, a configuration asks for internal key material and keys of 128 bits |
| `ColumnsHaveOneKey` | `OneKeyPerColumn` always holds |
| `WhatIsParsedIsExpressible` | `ParsedIsExpressible` always holds |
| `ConfigurationsComeBack`, `DecryptionComesBack` | `RoundTrip` and `DecryptionSurvives` always hold |

Not all of these are inductive by themselves, as they are about what is left of a
configuration on its way through a session.

- `Checked`, for the columns: both ways to a configuration end in the check of `build`, and
  nothing changes its columns after it.
- `TypeInv` adds `SessionOK`: what the session has under the name of an option is of the type
  of that option, or does not parse.  `OptionsTyped` follows, that options over the defaults
  are typed where `set` accepts them.
- `ParsedInv`: only the conversion of a session makes a configuration while there is one,
  and by `ConfiguredType` what it makes is expressible and has lifetimes of whole seconds.
- `OriginOK`: what a program put into a session stays there, and is the options of its
  configurations in some order of the keys; a configuration that came back is made of them.
  `RoundTrip` then comes down to options that the session gives back as they went in, also
  those without a value, which it does not keep (`KeptOptions`); to the text of the columns
  (`DeserializeOfSerialize`); and to seconds (`SecondsThereAndBack`).

**`TextsProofs`**, for texts of any length and maps of any size:

| Theorem | Says |
|---|---|
| `SplitOfJoin` | parts without the delimiter, joined with it and split at it, are the same parts |
| `DeserializeType` | any text stands for a finite map, with no delimiter in the way and no column without a name |
| `DeserializeOfSerialize` | a map that texts can express is read back from its text, whatever order the `HashMap` gave |

Splitting and joining are recursive functions, so what they compute is proved by induction over
sequences.  The prover cannot use the library's induction theorems, whose parameter is an
operator; `Least`, `Induction` and `SequenceInduction` prove the principle for sets, and each
inductive proof names the set of sequences for which its claim holds.

What is assumed is named: `None` and the other markers are none of the values they are told
from (`MarkersAssumption`, `KeysAssumption`), a plan or setup mentions only what is declared
(`PlanAssumption`, `ConnectionAssumption`, `SetupAssumption`, `ConfigsAssumption`), lifetimes,
intervals and bounds are naturals, calls of the async bridge are finitely many and KEK names
stand for one master key (`CallsAssumption`), files are as `KeyWrapper` makes them
(`FilesAssumption`), and what is entered or built is made of texts and durations, and of values
that fit the option they are entered for or do not parse (`ConfigurationAssumption`,
`OptionAssumption`).  TLC evaluates all of them in the runs.

Only model-checked: all liveness, which rests on fairness and `ENABLED`, which the prover
does not do: `CallsReturn`, `CallsEnd` of `KmsManager` and of `AsyncBridge`,
`KekCallsDoNotNeedKms`, `FilesEnd` and `ReadersEnd`.  What `NobodyStuck` proves of two of these
modules is the part of it that needs no fairness.

## 5. What the code does that its docs do not say

1. `get_client` can deadlock with a refresh (`kms_manager.rs:54`, with `kms/mod.rs:57` and
   `72-75`), where waiting writers keep readers out.
2. KEK write caches are keyed by token alone (`kms_manager.rs:85`): with two KMS instances
   and one token, for instance the default one, files can be unreadable.
3. On a multi-threaded Tokio runtime calls can wait for one another for ever, when those that
   wait for a cache's mutex have all the workers and the KMS of the one that has it needs one
   (`kms/async_impl/reenter_async.rs:42`).
4. A configuration completed from one footer counts as provided for the next
   (`key_unwrapper.rs:95`).
5. A key with two entries in `column_key_ids` loses the columns of the first
   (`datafusion.rs:267`).

## 6. What is not modelled

- JSON, base64, nonces and the lengths of keys.  A wrapped key that is too short panics in
  `key_encryption.rs:56`; the effect of a panic there is the one `KmsPanics` shows.
- `custom_kms_conf`, which is passed on; client keys do not have the URL in them, which the
  docs of `CryptoFactory` announce.
- The Parquet properties that are built from the keys, the DataFusion trait that only
  forwards, the crate root and its example, the generator of test files.
- The runtimes are external: `AsyncBridge` says which of their threads can run what, not how
  they choose.  Nothing expires there, and no token is refreshed: what that does is the same
  as in the modules it takes its steps from.
- An unwrapper keeps its KEK cache as long as it exists, past the cache lifetime; tests expect
  it, and `live` and `cacheOf` of `KeyUnwrapper` model it, but no property is about it.  The
  same is true of an entry that lives as long as its creator wanted, and not as long as the
  caller's `cache_lifetime` (`kms_manager.rs:162`).
- A KMS that returns wrong keys, and footers this library does not write, except that one
  without a URL is read in the runs; `ConfigIsOneFooters` does not speak of it.

## 7. Plan

The order puts first what everything else stands on.

1. Done: `ExpiringCache` with its abstract specification; `KmsManager` over the abstract cache;
   `KeyWrapper` and `KeyUnwrapper` over the manager's promise; `Configuration` with both
   configurations and the sessions; `KmsConnection`; `AsyncBridge` with `TestKms`.
2. Done: proofs of all safety properties and refinements; those of `KeyWrapper` and
   `KeyUnwrapper` meet in `WellWritten`.
3. Done: `KekCaches`, the abstract KEK caches that the write side, the read side and the async
   calls all implement.
4. Done: `Texts`, with proofs by induction, so that the round trips of `Configuration` are proved
   for texts of any length; that calls and readers wait in no circle, for any number of them.
5. Left: the lengths of keys and what a KMS that returns wrong ones does to a cache; what waits
   behind a refresh where writers of the token go first; who waits for whom in `AsyncBridge`
   and `KeyWrapper`, as `NobodyStuck` says it of the other two.

## 8. Running the checks

    tlc -workers 2 -config KeyWrapperWriters.cfg MCKeyWrapper.tla
    tlapm KeyWrapperProofs.tla

and in the same way for the other configurations and the other modules whose names end in
`Proofs`.

`PROJECT.json` lists every run with its module and configuration, the lines each definition
models, and for every property a mutated definition of the code that breaks it.  The
mutants stand before the definitions they mutate, and nothing else uses them.
