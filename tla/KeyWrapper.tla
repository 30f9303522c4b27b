------------------------------ MODULE KeyWrapper ------------------------------
(***************************************************************************)
(* CryptoFactory::file_encryption_properties (crypto_factory.rs) and the   *)
(* KeyWrapper it works through (key_wrapper.rs).                           *)
(*                                                                         *)
(* Each writer makes the encryption properties of one file: it takes the   *)
(* KEK write cache of its access token, then generates a data key and its  *)
(* key material for the footer and for each column in turn.  Writers with  *)
(* the same token share the KEK write cache, a map from master key to KEK  *)
(* behind a mutex that a writer keeps while the KMS wraps a new KEK.       *)
(*                                                                         *)
(* KmsManager is used as its module describes it: kek_write_caches maps a  *)
(* token to the KEK cache that is live for it, and a client works for the  *)
(* KMS instance of the config it was asked for with.                       *)
(***************************************************************************)
EXTENDS KeyMaterial, Naturals

CONSTANTS
    Writers,      \* calls of file_encryption_properties
    Columns,      \* columns that may have a key of their own
    Masters,      \* master key ids
    Ids,          \* the KMS instance ids of configs, possibly Unset
    Cells, Tokens, \* token cells of configs, and the tokens in them
    Id, Url, Cell, \* of the config of each writer
    FooterMaster, \* of each writer's encryption configuration: footer_key_id,
    ColumnMaster, \*   the master key of each column that has one,
    DoubleWrapping, \* and whether it uses double wrapping
    FirstToken,   \* the token each cell starts with
    Footer,       \* the footer key, next to the names of columns
    MaxCaches     \* bound on the number of KEK caches created

ASSUME PlanAssumption ==
    /\ Id \in [Writers -> Ids]
    /\ Cell \in [Writers -> Cells]
    /\ FooterMaster \in [Writers -> Masters]
    /\ DOMAIN ColumnMaster = Writers
    /\ \A w \in Writers : DOMAIN ColumnMaster[w] \subseteq Columns
    /\ \A w \in Writers : \A c \in DOMAIN ColumnMaster[w] : ColumnMaster[w][c] \in Masters
    /\ DoubleWrapping \in [Writers -> BOOLEAN]
    /\ FirstToken \in [Cells -> Tokens]
    /\ Footer \notin Columns /\ MaxCaches \in Nat
    /\ None \notin Writers /\ None \notin Nat

VARIABLES
    token,     \* the access token in each cell
    live,      \* kek_write_caches: the KEK cache that has not expired, by token
    created,   \* how many KEK caches were created
    keks,      \* the KEK of each master key in each KEK cache
    holder,    \* the writer inside the mutex of each KEK cache, or None
    poisoned,  \* the KEK caches whose mutex is poisoned
    writer,    \* what each writer is doing
    file,      \* the key material each writer has made for each of its keys
    generated  \* history: every KEK that was wrapped, and where it was put

kekVars == <<keks, holder, poisoned, generated>>
vars == <<token, live, created, kekVars, writer, file>>

Caches == 1 .. MaxCaches
Keys == {Footer} \cup Columns
KeysOf(w) == {Footer} \cup DOMAIN ColumnMaster[w]
MasterOf(w, key) == IF key = Footer THEN FooterMaster[w] ELSE ColumnMaster[w][key]

\* A data key, a KEK and a KEK id are random: each has a name of its own.
Dek(w, key) == <<"dek", w, key>>
Kek(w, key) == <<"kek", w, key>>
KekId(w, key) == <<"id", w, key>>

KeyEncryptionKey == [key_id: {KekId(w, key) : w \in Writers, key \in Keys},
                     key: {Kek(w, key) : w \in Writers, key \in Keys},
                     wrapped_key: {WrapKey(id, m, Kek(w, key)) :
                                      id \in Ids, m \in Masters, w \in Writers, key \in Keys}]

\* A key that is generated is told from there being none.
ASSUME KeysAssumption ==
    /\ None \notin KeyEncryptionKey
    /\ \A w \in Writers, key \in Keys : {Dek(w, key), Kek(w, key)} \cap {None, Failed} = {}

Steps == {"begin", "keys", "wrap", "done", "failed", "panicked"}
Writer == [step: Steps, cache: Caches \cup {None}, key: Keys \cup {None}]

TypeOK ==
    /\ token \in [Cells -> Tokens]
    /\ live \in [Tokens -> Caches \cup {None}]
    /\ created \in 0 .. MaxCaches
    /\ keks \in [Caches -> [Masters -> KeyEncryptionKey \cup {None}]]
    /\ holder \in [Caches -> Writers \cup {None}]
    /\ poisoned \subseteq Caches
    /\ writer \in [Writers -> Writer]
    /\ DOMAIN file = Writers
    /\ \A w \in Writers : DOMAIN file[w] = Keys

Init ==
    /\ token = FirstToken
    /\ live = [tok \in Tokens |-> None]
    /\ created = 0
    /\ keks = [n \in Caches |-> [m \in Masters |-> None]]
    /\ holder = [n \in Caches |-> None]
    /\ poisoned = {}
    /\ writer = [w \in Writers |-> [step |-> "begin", cache |-> None, key |-> None]]
    /\ file = [w \in Writers |-> [key \in Keys |-> None]]
    /\ generated = {}

(***************************************************************************)
(* KeyWrapper::new takes the KEK write cache, whether or not it will be    *)
(* used; the token may change before it is.  What the code checks first,   *)
(* internal_key_material and data_key_length_bits, has no setter.          *)
(***************************************************************************)
Begin(w) ==
    LET tok == token[Cell[w]]
        cache == IF live[tok] # None THEN live[tok] ELSE created + 1
    IN  /\ writer[w].step = "begin"
        /\ cache \in Caches
        /\ live' = [live EXCEPT ![tok] = cache]
        /\ created' = IF live[tok] # None THEN created ELSE cache
        /\ writer' = [writer EXCEPT ![w] = [step |-> "keys", cache |-> cache, key |-> None]]
        /\ UNCHANGED <<token, kekVars, file>>

\* The footer key comes first, the columns in the order of a HashMap.
IsNext(w, key) ==
    /\ key \in KeysOf(w)
    /\ file[w][key] = None
    /\ key # Footer => file[w][Footer] # None

(***************************************************************************)
(* KeyWrapper::get_key_metadata.                                           *)
(***************************************************************************)
OrDefault(value) == IF value = Unset THEN Default ELSE value

Place(w, key) ==
    IF key = Footer THEN ForFooterKey(OrDefault(Id[w]), OrDefault(Url[w])) ELSE ForColumnKey

SingleWrapped(w, key) ==
    WithSingleWrappedKey(Place(w, key), MasterOf(w, key),
                         WrapKey(Id[w], MasterOf(w, key), Dek(w, key)))
\* A mutant of DoubleWrapped: the data key is bound to the master key, not to
\* the KEK id.
DoubleWrappedMutant(w, key, kek) ==
    WithDoubleWrappedKey(Place(w, key), MasterOf(w, key), kek.key_id, kek.wrapped_key,
                         EncryptEncryptionKey(Dek(w, key), MasterOf(w, key), kek.key))

DoubleWrapped(w, key, kek) ==
    WithDoubleWrappedKey(Place(w, key), MasterOf(w, key), kek.key_id, kek.wrapped_key,
                         EncryptEncryptionKey(Dek(w, key), kek.key_id, kek.key))

\* Single wrapping: get_client and wrap_key.
WrapWithKms(w, key) ==
    /\ writer[w].step = "keys" /\ ~DoubleWrapping[w] /\ IsNext(w, key)
    /\ file' = [file EXCEPT ![w][key] = SingleWrapped(w, key)]
    /\ UNCHANGED <<token, live, created, kekVars, writer>>

\* Double wrapping with the KEK of the master key that is in the cache.
UseKek(w, key) ==
    LET cache == writer[w].cache
        kek == keks[cache][MasterOf(w, key)]
    IN  /\ writer[w].step = "keys" /\ DoubleWrapping[w] /\ IsNext(w, key)
        /\ holder[cache] = None /\ cache \notin poisoned
        /\ kek # None
        /\ file' = [file EXCEPT ![w][key] = DoubleWrapped(w, key, kek)]
        /\ UNCHANGED <<token, live, created, kekVars, writer>>
\* A mutant of GenerateKek, which lets go of the mutex while the KMS wraps.
GenerateKekMutant(w, key) ==
    LET cache == writer[w].cache
    IN  /\ writer[w].step = "keys" /\ DoubleWrapping[w] /\ IsNext(w, key)
        /\ holder[cache] = None /\ cache \notin poisoned
        /\ keks[cache][MasterOf(w, key)] = None
        /\ writer' = [writer EXCEPT ![w].step = "wrap", ![w].key = key]
        /\ UNCHANGED <<token, live, created, kekVars, file>>

\* generate_key_encryption_key, with the mutex held until the KMS has answered.
GenerateKek(w, key) ==
    LET cache == writer[w].cache
    IN  /\ writer[w].step = "keys" /\ DoubleWrapping[w] /\ IsNext(w, key)
        /\ holder[cache] = None /\ cache \notin poisoned
        /\ keks[cache][MasterOf(w, key)] = None
        /\ holder' = [holder EXCEPT ![cache] = w]
        /\ writer' = [writer EXCEPT ![w].step = "wrap", ![w].key = key]
        /\ UNCHANGED <<token, live, created, keks, poisoned, generated, file>>
\* Mutants of NewKek: the key and its id swapped, and one id for all the KEKs
\* of a file.
NewKekSwapped(w, key) ==
    [key_id |-> Kek(w, key), key |-> KekId(w, key),
     wrapped_key |-> WrapKey(Id[w], MasterOf(w, key), Kek(w, key))]
NewKekOneId(w, key) ==
    [key_id |-> KekId(w, Footer), key |-> Kek(w, key),
     wrapped_key |-> WrapKey(Id[w], MasterOf(w, key), Kek(w, key))]

NewKek(w, key) ==
    [key_id |-> KekId(w, key), key |-> Kek(w, key),
     wrapped_key |-> WrapKey(Id[w], MasterOf(w, key), Kek(w, key))]

KekWrapped(w) ==
    LET cache == writer[w].cache
        key == writer[w].key
        kek == NewKek(w, key)
    IN  /\ writer[w].step = "wrap"
        /\ keks' = [keks EXCEPT ![cache][MasterOf(w, key)] = kek]
        /\ generated' = generated \cup
                {[cache |-> cache, master |-> MasterOf(w, key), kek |-> kek]}
        /\ file' = [file EXCEPT ![w][key] = DoubleWrapped(w, key, kek)]
        /\ holder' = [holder EXCEPT ![cache] = None]
        /\ writer' = [writer EXCEPT ![w].step = "keys", ![w].key = None]
        /\ UNCHANGED <<token, live, created, poisoned>>

(***************************************************************************)
(* How a call ends.  Errors come from the client factory and from the KMS; *)
(* `?` returns them without storing a KEK, and the file is given up.       *)
(***************************************************************************)
Stop(w, step) == writer' = [writer EXCEPT ![w].step = step, ![w].key = None]
\* A mutant of KmsFails, which returns with the mutex locked.
KmsFailsMutant(w) ==
    /\ \/ writer[w].step = "wrap"
       \/ /\ writer[w].step = "keys" /\ ~DoubleWrapping[w]
          /\ \E key \in Keys : IsNext(w, key)
    /\ Stop(w, "failed")
    /\ UNCHANGED <<token, live, created, kekVars, file>>

KmsFails(w) ==
    /\ \/ /\ writer[w].step = "wrap"
          /\ holder' = [holder EXCEPT ![writer[w].cache] = None]
       \/ /\ writer[w].step = "keys" /\ ~DoubleWrapping[w]
          /\ \E key \in Keys : IsNext(w, key)
          /\ UNCHANGED holder
    /\ Stop(w, "failed")
    /\ UNCHANGED <<token, live, created, keks, poisoned, generated, file>>

\* A panic in the client, or in the client cache of KmsManager, poisons the
\* KEK cache if the writer is inside its mutex.
KmsPanics(w) ==
    /\ \/ /\ writer[w].step = "wrap"
          /\ holder' = [holder EXCEPT ![writer[w].cache] = None]
          /\ poisoned' = poisoned \cup {writer[w].cache}
       \/ /\ writer[w].step = "keys" /\ ~DoubleWrapping[w]
          /\ \E key \in Keys : IsNext(w, key)
          /\ UNCHANGED <<holder, poisoned>>
    /\ Stop(w, "panicked")
    /\ UNCHANGED <<token, live, created, keks, generated, file>>

Reject(w) ==
    /\ writer[w].step = "keys" /\ DoubleWrapping[w]
    /\ \E key \in Keys : IsNext(w, key)
    /\ holder[writer[w].cache] = None /\ writer[w].cache \in poisoned
    /\ Stop(w, "panicked")
    /\ UNCHANGED <<token, live, created, kekVars, file>>

Finish(w) ==
    /\ writer[w].step = "keys"
    /\ \A key \in KeysOf(w) : file[w][key] # None
    /\ Stop(w, "done")
    /\ UNCHANGED <<token, live, created, kekVars, file>>

\* refresh_key_access_token, and the expiry of a KEK cache.
Refresh(cell, tok) ==
    /\ token' = [token EXCEPT ![cell] = tok]
    /\ UNCHANGED <<live, created, kekVars, writer, file>>

Expire(tok) ==
    /\ live' = [live EXCEPT ![tok] = None]
    /\ UNCHANGED <<token, created, kekVars, writer, file>>

Write(w) ==
    \/ Begin(w)
    \/ \E key \in Keys : WrapWithKms(w, key) \/ UseKek(w, key) \/ GenerateKek(w, key)
    \/ KekWrapped(w)
    \/ KmsFails(w)
    \/ KmsPanics(w)
    \/ Reject(w)
    \/ Finish(w)

Next ==
    \/ \E w \in Writers : Write(w)
    \/ \E cell \in Cells, tok \in Tokens : Refresh(cell, tok)
    \/ \E tok \in Tokens : Expire(tok)

Spec == Init /\ [][Next]_vars

\* A KMS call returns in the end, and each file is one call: no writer is
\* overtaken at a mutex for ever.
FairSpec == Spec /\ \A w \in Writers : WF_vars(Write(w))

(***************************************************************************)
(* Safety.                                                                 *)
(***************************************************************************)
\* In one KEK cache a master key has one KEK, and the KMS wrapped it once,
\* however many writers find it missing at once (crypto_factory.rs:878).
OneKekPerMasterKey ==
    \A g, h \in generated : g.cache = h.cache /\ g.master = h.master => g.kek = h.kek

\* A KEK id stands for one KEK of one master key: a reader that has unwrapped it
\* once may use it for every key that names it (key_wrapper.rs:112).
Materials == {file[w][key] : w \in Writers, key \in Keys} \ {None}

KekIdsAreUnambiguous ==
    \A a, b \in Materials :
        a.double_wrapping /\ b.double_wrapping
            /\ a.key_encryption_key_id = b.key_encryption_key_id
        => a.wrapped_kek = b.wrapped_kek /\ a.master_key_id = b.master_key_id

\* What a reader gets from the material of a key at the KMS instance of the
\* footer, the one it is told to use when it is not configured otherwise.
Recover(w, key) ==
    LET m == file[w][key]
        id == file[w][Footer].place.kms_instance_id
    IN  IF m.double_wrapping
        THEN DecryptEncryptionKey(m.wrapped_dek, m.key_encryption_key_id,
                                  UnwrapKey(id, m.master_key_id, m.wrapped_kek))
        ELSE UnwrapKey(id, m.master_key_id, m.wrapped_dek)

\* A finished file can be read: every key of it is recovered at the KMS instance
\* its footer names, the one the writer was configured with (kms/mod.rs:44: "ID
\* of the KMS instance to use for encryption").
FilesAreReadable ==
    \A w \in Writers :
        writer[w].step = "done" =>
            \A key \in KeysOf(w) : Recover(w, key) = Dek(w, key)

(***************************************************************************)
(* Liveness.                                                               *)
(***************************************************************************)
\* Every file is written, given up or panics, whatever the others meet.
FilesEnd ==
    \A w \in Writers : <>(writer[w].step \in {"done", "failed", "panicked"})

(***************************************************************************)
(* Refinement: writers use their caches as KekCaches says, with master     *)
(* keys for names.                                                         *)
(***************************************************************************)
\* The KEKs of a master key, each wrapped with it by the KMS.
KeksOfMaster ==
    [m \in Masters |-> {kek \in KeyEncryptionKey :
                          kek.wrapped_key.master = m /\ kek.wrapped_key.key = kek.key}]

Abstract == INSTANCE KekCaches WITH
    Users <- Writers, Names <- Masters, KeksFor <- KeksOfMaster

\* A KEK is stored by the writer that has had the mutex since it found none, for the
\* master key it was wrapped with, and is never replaced; who fails stores nothing,
\* and after a panic nobody does (key_wrapper.rs: get_key_metadata).
ImplementsKekCaches == Abstract!KCSpec
================================================================================
