----------------------------- MODULE KeyUnwrapper -----------------------------
(***************************************************************************)
(* CryptoFactory::file_decryption_properties (crypto_factory.rs) and the   *)
(* KeyUnwrapper it makes (key_unwrapper.rs), which the Parquet reader      *)
(* calls back with the key metadata it meets in files.                     *)
(*                                                                         *)
(* An unwrapper is shared by the readers that use the same decryption      *)
(* properties, for one file or for several, and its KEK cache by the       *)
(* unwrappers made with the same access token.  A reader retrieves the     *)
(* footer key of its file, which may complete the connection               *)
(* configuration, then the column keys.  Two locks are involved: the mutex *)
(* of the KEK cache, kept while the KMS unwraps a KEK, and the RwLock      *)
(* around the configuration, read while the KMS is used.                   *)
(*                                                                         *)
(* KmsManager is used as its module describes it: kek_read_caches maps a   *)
(* token to the KEK cache that is live for it, and a client works for the  *)
(* KMS instance of the config it was asked for with.                       *)
(***************************************************************************)
EXTENDS KmsConnection, Naturals, Functions

CONSTANTS
    Readers,     \* threads, each reading one file through one unwrapper
    Files,       \* files
    Keys,        \* the keys of a file: its footer's and its columns'
    Footer,      \* which of Keys is the footer's
    Ids, Urls,   \* KMS instance ids and URLs, possibly Unset
    Uses,        \* the unwrapper each reader uses
    MayRead,     \* the files each reader may read
    Material,    \* the key material of each key of each file
    MaxCaches    \* bound on the number of KEK caches created

ASSUME SetupAssumption ==
    /\ \A a \in Configs : Built[a].kms_instance_id \in Ids /\ Built[a].kms_instance_url \in Urls
    /\ \A r \in Readers : Uses[r] \in Unwrappers /\ MayRead[r] \subseteq Files
    /\ Footer \in Keys /\ MaxCaches \in Nat
    /\ None \notin Readers /\ None \notin Keys /\ None \notin Nat
    /\ \A f \in Files : Footer \in DOMAIN Material[f] /\ DOMAIN Material[f] \subseteq Keys
    /\ \A f \in Files : \A key \in DOMAIN Material[f] :
          LET m == Material[f][key]
          IN  /\ m.place.is_footer_key =>
                    m.place.kms_instance_id \in Ids /\ m.place.kms_instance_url \in Urls
              /\ m.double_wrapping \in BOOLEAN

\* The instance a file's keys were wrapped in.
FooterOf(f) == Material[f][Footer].place
InstanceOf(f) == Instance(FooterOf(f).kms_instance_id)

DoubleWrapped == {m \in UNION {Range(Material[f]) : f \in Files} : m.double_wrapping}

\* Files are as KeyWrapper makes them.
ASSUME FilesAssumption == WellWritten({Material[f] : f \in Files}, Footer)

VARIABLES
    live,      \* kek_read_caches: the KEK cache that has not expired, by token
    created,   \* how many KEK caches were created
    cacheOf,   \* the kek_cache of each unwrapper, None before it is made
    keks,      \* the KEKs in each KEK cache, by their id
    holder,    \* the reader inside the mutex of each KEK cache, or None
    poisoned,  \* the KEK caches whose mutex is poisoned
    reads,     \* the file each reader reads
    reader,    \* what each reader is doing
    got,       \* what each reader got for each of its keys
    unwrapped  \* history: the KEKs the KMS unwrapped, and for which cache

cacheVars == <<keks, holder, poisoned, unwrapped>>
vars == <<live, created, cacheOf, configVars, cacheVars, reads, reader, got>>

Caches == 1 .. MaxCaches
MaterialOf(r, key) == Material[reads[r]][key]
KeysOf(r) == DOMAIN Material[reads[r]]
\* A mutant of CacheKey: KEKs are filed by master key, as the writer's are.
CacheKeyMutant(m) == m.master_key_id

\* Under what a KEK is filed in the cache.
CacheKey(m) == m.key_encryption_key_id

KekIds == {CacheKey(m) : m \in DoubleWrapped}

\* The steps of retrieve_key: the footer's configuration update, the way to the
\* data key, the KMS call in which that key or its KEK is unwrapped.  A reader
\* gives up on an Err: "down" when the KMS could not serve it, "failed" when
\* what it was asked with is the reason.
Steps == {"idle", "update", "unwrap", "kms", "kekkms", "failed", "down", "panicked"}
Reader == [step: Steps, key: Keys \cup {None}]

TypeOK ==
    /\ live \in [Tokens -> Caches \cup {None}]
    /\ created \in 0 .. MaxCaches
    /\ cacheOf \in [Unwrappers -> Caches \cup {None}]
    /\ ConnectionTypeOK
    /\ \A u \in Unwrappers : arc[u] # None =>
          Conf(u).kms_instance_id \in Ids /\ Conf(u).kms_instance_url \in Urls
    /\ DOMAIN keks = Caches
    /\ \A n \in Caches : DOMAIN keks[n] = KekIds
    /\ holder \in [Caches -> Readers \cup {None}]
    /\ poisoned \subseteq Caches
    /\ reads \in [Readers -> Files]
    /\ reader \in [Readers -> Reader]
    /\ DOMAIN got = Readers

Init ==
    /\ live = [tok \in Tokens |-> None]
    /\ created = 0
    /\ cacheOf = [u \in Unwrappers |-> None]
    /\ ConnectionInit
    /\ keks = [n \in Caches |-> [i \in KekIds |-> None]]
    /\ holder = [n \in Caches |-> None]
    /\ poisoned = {}
    /\ reads \in {f \in [Readers -> Files] : \A r \in Readers : f[r] \in MayRead[r]}
    /\ reader = [r \in Readers |-> [step |-> "idle", key |-> None]]
    /\ got = [r \in Readers |-> [key \in Keys |-> None]]
    /\ unwrapped = {}

(***************************************************************************)
(* KeyUnwrapper::new takes the KEK cache that is live for the token then,  *)
(* and keeps it for as long as the unwrapper exists.                       *)
(***************************************************************************)
NewUnwrapper(u, a) ==
    LET tok == token[heap[a].key_access_token]
        cache == IF live[tok] # None THEN live[tok] ELSE created + 1
    IN  /\ cache \in Caches
        /\ PassOn(u, a)
        /\ live' = [live EXCEPT ![tok] = cache]
        /\ created' = IF live[tok] # None THEN created ELSE cache
        /\ cacheOf' = [cacheOf EXCEPT ![u] = cache]
        /\ UNCHANGED <<cacheVars, reader, reads, got>>

\* The KMS manager's clients follow the token; the unwrapper's KEK cache does not.
Refresh(a, tok) ==
    /\ RefreshKeyAccessToken(a, tok)
    /\ UNCHANGED <<live, created, cacheOf, cacheVars, reads, reader, got>>

Expire(tok) ==
    /\ live' = [live EXCEPT ![tok] = None]
    /\ UNCHANGED <<created, cacheOf, configVars, cacheVars, reads, reader, got>>

(***************************************************************************)
(* The RwLock around the configuration.  It is written in one step, so     *)
(* only read guards are held: by readers waiting for the KMS.              *)
(***************************************************************************)
\* A mutant of ConfigReaders: the guard is taken before the mutex, and the
\* configuration read once more for the KMS.
ConfigReadersMutant(u) ==
    {r \in Readers : reader[r].step \in {"unwrap", "kms", "kekkms"} /\ Uses[r] = u}

ConfigReaders(u) ==
    {r \in Readers : reader[r].step \in {"kms", "kekkms"} /\ Uses[r] = u}

\* A reader waits for a writer that is waiting, as on Linux.
CanReadConfig(u) ==
    \A r \in Readers : ~(reader[r].step = "update" /\ Uses[r] = u)

MoveTo(r, step) == reader' = [reader EXCEPT ![r].step = step]

Stop(r, step) == reader' = [reader EXCEPT ![r] = [step |-> step, key |-> None]]

(***************************************************************************)
(* retrieve_key.  The footer key is retrieved first.  Material that is not *)
(* PKMT1, external, or double wrapped without a KEK is not written.        *)
(***************************************************************************)
Retrieve(r, key) ==
    LET m == MaterialOf(r, key)
    IN  /\ reader[r].step = "idle" /\ cacheOf[Uses[r]] # None
        /\ key \in KeysOf(r) /\ got[r][key] = None
        /\ key # Footer => got[r][Footer] # None
        /\ reader' = [reader EXCEPT ![r] =
              [step |-> IF m.place.is_footer_key THEN "update" ELSE "unwrap", key |-> key]]
        /\ UNCHANGED <<live, created, cacheOf, configVars, cacheVars, reads, got>>
GivenOr(given, footers) == IF given # Unset THEN given ELSE footers

\* A mutant of Updated: the footer's id and URL swapped.
UpdatedMutant(c, place) ==
    [kms_instance_id |-> GivenOr(c.kms_instance_id, place.kms_instance_url),
     kms_instance_url |-> GivenOr(c.kms_instance_url, place.kms_instance_id),
     key_access_token |-> c.key_access_token]

\* What is unset is taken from the footer.
Updated(c, place) ==
    [kms_instance_id |-> GivenOr(c.kms_instance_id, place.kms_instance_id),
     kms_instance_url |-> GivenOr(c.kms_instance_url, place.kms_instance_url),
     key_access_token |-> c.key_access_token]

IsComplete(c) == c.kms_instance_id # Unset /\ c.kms_instance_url # Unset

\* A mutant of UpdateConfig, which does not ask whether the id is set.
UpdateConfigMutant(r) ==
    LET u == Uses[r]
        place == MaterialOf(r, reader[r].key).place
    IN  /\ reader[r].step = "update"
        /\ ConfigReaders(u) = {}
        /\ MakeMut(u, [Updated(Conf(u), place) EXCEPT
                          !.kms_instance_id = place.kms_instance_id])
        /\ MoveTo(r, "unwrap")
        /\ UNCHANGED <<live, created, cacheOf, cacheVars, reads, got>>

\* update_kms_config_from_footer_metadata: a config that is not complete is made
\* the unwrapper's own.  An id that was taken stays when the URL turns out to be
\* missing.
UpdateConfig(r) ==
    LET u == Uses[r]
        c == Conf(u)
        new == Updated(c, MaterialOf(r, reader[r].key).place)
    IN  /\ reader[r].step = "update"
        /\ ConfigReaders(u) = {}
        /\ IF IsComplete(c) THEN UNCHANGED configVars
           ELSE MakeMut(u, IF new.kms_instance_id = Unset THEN c ELSE new)
        /\ MoveTo(r, IF IsComplete(new) THEN "unwrap" ELSE "failed")
        /\ UNCHANGED <<live, created, cacheOf, cacheVars, reads, got>>

Answer(r, result) ==
    /\ got' = [got EXCEPT ![r][reader[r].key] = result]
    /\ Stop(r, IF result = Failed THEN "failed" ELSE "idle")

(***************************************************************************)
(* unwrap_double_wrapped_key and unwrap_single_wrapped_key.                *)
(***************************************************************************)
Decrypted(m, kek) == DecryptEncryptionKey(m.wrapped_dek, m.key_encryption_key_id, kek)

UseKek(r) ==
    LET cache == cacheOf[Uses[r]]
        m == MaterialOf(r, reader[r].key)
        kek == keks[cache][CacheKey(m)]
    IN  /\ reader[r].step = "unwrap" /\ m.double_wrapping
        /\ holder[cache] = None /\ cache \notin poisoned
        /\ kek # None
        /\ Answer(r, Decrypted(m, kek))
        /\ UNCHANGED <<live, created, cacheOf, reads, configVars, cacheVars>>

\* The mutex is taken before the configuration's read guard.
MissKek(r) ==
    LET cache == cacheOf[Uses[r]]
        m == MaterialOf(r, reader[r].key)
    IN  /\ reader[r].step = "unwrap" /\ m.double_wrapping
        /\ holder[cache] = None /\ cache \notin poisoned
        /\ keks[cache][CacheKey(m)] = None
        /\ holder' = [holder EXCEPT ![cache] = r]
        /\ UNCHANGED <<live, created, cacheOf, reads, configVars, keks, poisoned, unwrapped, reader, got>>

Holds(r) == holder[cacheOf[Uses[r]]] = r

\* get_client and unwrap_key, under the configuration's read guard.
CallKms(r) ==
    /\ reader[r].step = "unwrap"
    /\ CanReadConfig(Uses[r])
    /\ \/ ~MaterialOf(r, reader[r].key).double_wrapping /\ MoveTo(r, "kms")
       \/ Holds(r) /\ MoveTo(r, "kekkms")
    /\ UNCHANGED <<live, created, cacheOf, configVars, cacheVars, reads, got>>

DekUnwrapped(r) ==
    LET m == MaterialOf(r, reader[r].key)
    IN  /\ reader[r].step = "kms"
        /\ Answer(r, UnwrapKey(Conf(Uses[r]).kms_instance_id, m.master_key_id, m.wrapped_dek))
        /\ UNCHANGED <<live, created, cacheOf, reads, configVars, cacheVars>>
\* A mutant of KekUnwrapped, which does not store the KEK.
KekUnwrappedMutant(r) ==
    LET cache == cacheOf[Uses[r]]
        m == MaterialOf(r, reader[r].key)
        kek == UnwrapKey(Conf(Uses[r]).kms_instance_id, m.master_key_id, m.wrapped_kek)
    IN  /\ reader[r].step = "kekkms" /\ kek # Failed
        /\ unwrapped' = unwrapped \cup
              {[by |-> r, for |-> reader[r].key, cache |-> cache,
                kekId |-> m.key_encryption_key_id]}
        /\ holder' = [holder EXCEPT ![cache] = None]
        /\ Answer(r, Decrypted(m, kek))
        /\ UNCHANGED <<live, created, cacheOf, reads, configVars, keks, poisoned>>

\* The KEK is stored before it is tried on the data key.
KekUnwrapped(r) ==
    LET cache == cacheOf[Uses[r]]
        m == MaterialOf(r, reader[r].key)
        kek == UnwrapKey(Conf(Uses[r]).kms_instance_id, m.master_key_id, m.wrapped_kek)
    IN  /\ reader[r].step = "kekkms" /\ kek # Failed
        /\ keks' = [keks EXCEPT ![cache][CacheKey(m)] = kek]
        /\ unwrapped' = unwrapped \cup
              {[by |-> r, for |-> reader[r].key, cache |-> cache,
                kekId |-> m.key_encryption_key_id]}
        /\ holder' = [holder EXCEPT ![cache] = None]
        /\ Answer(r, Decrypted(m, kek))
        /\ UNCHANGED <<live, created, cacheOf, reads, configVars, poisoned>>
\* A mutant of KekRefused, which returns with the mutex locked.
KekRefusedMutant(r) ==
    LET m == MaterialOf(r, reader[r].key)
    IN  /\ reader[r].step = "kekkms"
        /\ UnwrapKey(Conf(Uses[r]).kms_instance_id, m.master_key_id, m.wrapped_kek) = Failed
        /\ Answer(r, Failed)
        /\ UNCHANGED <<live, created, cacheOf, reads, configVars, cacheVars>>

\* A mutant of KekRefused, which stores what the KMS answered before it looks at it.
KekRefusedStored(r) ==
    LET cache == cacheOf[Uses[r]]
        m == MaterialOf(r, reader[r].key)
    IN  /\ reader[r].step = "kekkms"
        /\ UnwrapKey(Conf(Uses[r]).kms_instance_id, m.master_key_id, m.wrapped_kek) = Failed
        /\ keks' = [keks EXCEPT ![cache][CacheKey(m)] = Failed]
        /\ holder' = [holder EXCEPT ![cache] = None]
        /\ Answer(r, Failed)
        /\ UNCHANGED <<live, created, cacheOf, reads, configVars, poisoned, unwrapped>>

\* The KMS of another instance cannot unwrap the KEK.
KekRefused(r) ==
    LET m == MaterialOf(r, reader[r].key)
    IN  /\ reader[r].step = "kekkms"
        /\ UnwrapKey(Conf(Uses[r]).kms_instance_id, m.master_key_id, m.wrapped_kek) = Failed
        /\ holder' = [holder EXCEPT ![cacheOf[Uses[r]]] = None]
        /\ Answer(r, Failed)
        /\ UNCHANGED <<live, created, cacheOf, reads, configVars, keks, poisoned, unwrapped>>

\* The client factory fails, or the KMS does with a key it could unwrap.
KmsFails(r) ==
    /\ \/ reader[r].step = "kms" /\ UNCHANGED holder
       \/ /\ reader[r].step = "kekkms"
          /\ holder' = [holder EXCEPT ![cacheOf[Uses[r]]] = None]
    /\ Stop(r, "down")
    /\ UNCHANGED <<live, created, cacheOf, reads, configVars, keks, poisoned, unwrapped, got>>

\* A panic drops the read guard, and poisons the KEK cache if that is locked.
KmsPanics(r) ==
    /\ \/ reader[r].step = "kms" /\ UNCHANGED <<holder, poisoned>>
       \/ /\ reader[r].step = "kekkms"
          /\ holder' = [holder EXCEPT ![cacheOf[Uses[r]]] = None]
          /\ poisoned' = poisoned \cup {cacheOf[Uses[r]]}
    /\ Stop(r, "panicked")
    /\ UNCHANGED <<live, created, cacheOf, reads, configVars, keks, unwrapped, got>>

Reject(r) ==
    LET cache == cacheOf[Uses[r]]
    IN  /\ reader[r].step = "unwrap" /\ MaterialOf(r, reader[r].key).double_wrapping
        /\ holder[cache] = None /\ cache \in poisoned
        /\ Stop(r, "panicked")
        /\ UNCHANGED <<live, created, cacheOf, configVars, cacheVars, reads, got>>

Proceed(r) ==
    \/ \E key \in Keys : Retrieve(r, key)
    \/ UpdateConfig(r)
    \/ UseKek(r)
    \/ MissKek(r)
    \/ CallKms(r)
    \/ DekUnwrapped(r)
    \/ KekUnwrapped(r)
    \/ KekRefused(r)
    \/ KmsFails(r)
    \/ KmsPanics(r)
    \/ Reject(r)

Next ==
    \/ \E u \in Unwrappers, a \in Configs : NewUnwrapper(u, a)
    \/ \E tok \in Tokens : Expire(tok)
    \/ \E a \in Configs, tok \in Tokens : Refresh(a, tok)
    \/ \E r \in Readers : Proceed(r)

Spec == Init /\ [][Next]_vars

\* Readers that can go on do, some one of them at least, and a KMS call returns in
\* the end.  As a reader has only so many keys to retrieve, no one is overtaken for
\* ever.
FairSpec == Spec /\ WF_vars(\E r \in Readers : Proceed(r))

(***************************************************************************)
(* Safety.                                                                 *)
(***************************************************************************)
\* In one KEK cache each KEK is unwrapped by the KMS once, for whichever reader,
\* unwrapper or key needs it first (crypto_factory.rs:783).
OneUnwrapPerKek ==
    \A a, b \in unwrapped : a.cache = b.cache /\ a.kekId = b.kekId => a = b

FooterPlace(r) == FooterOf(reads[r])

\* The configuration and the files of an unwrapper agree on the instance, and
\* there is an id and a URL for a reader to use.
GivenId(u) == Built[source[u]].kms_instance_id
GivenUrl(u) == Built[source[u]].kms_instance_url

Agreed(u) ==
    \A r, q \in Readers :
        Uses[r] = u /\ Uses[q] = u =>
            /\ InstanceOf(reads[q]) = InstanceOf(reads[r])
            /\ GivenId(u) # Unset => Instance(GivenId(u)) = InstanceOf(reads[r])

Told(r) ==
    /\ GivenId(Uses[r]) # Unset \/ FooterPlace(r).kms_instance_id # Unset
    /\ GivenUrl(Uses[r]) # Unset \/ FooterPlace(r).kms_instance_url # Unset

\* A reader told of the right instance, by its configuration or by the footer,
\* recovers every key the KMS does not refuse it: what other readers and other
\* unwrappers of its token left in the KEK cache never gets in the way.
ReadableFilesAreRead ==
    \A r \in Readers :
        reader[r].step = "failed" => ~(Agreed(Uses[r]) /\ Told(r))

\* The configuration of an unwrapper is the one it was made with, completed
\* from the footer of a single file, however many readers have been completing
\* it: never the id of one footer with the URL of another.  That holds of footers
\* with both an id and a URL, as this library writes them; a footer that lacks the
\* URL leaves its id to the next reader's (key_unwrapper.rs:102).
WholeFooters(u) ==
    \A r \in Readers : Uses[r] = u =>
        FooterPlace(r).kms_instance_id # Unset /\ FooterPlace(r).kms_instance_url # Unset

ConfigIsOneFooters ==
    \A u \in Unwrappers :
        \/ arc[u] = None \/ ~WholeFooters(u)
        \/ Conf(u) = Build(source[u])
        \/ \E r \in Readers :
              /\ Uses[r] = u
              /\ Conf(u).kms_instance_id = GivenOr(GivenId(u), FooterPlace(r).kms_instance_id)
              /\ Conf(u).kms_instance_url = GivenOr(GivenUrl(u), FooterPlace(r).kms_instance_url)

\* Once it is complete it stays: the KMS a file is read with does not change
\* between its keys.
ConfigSettles ==
    [][\A u \in Unwrappers :
          arc[u] # None /\ IsComplete(Conf(u)) => Conf(u)' = Conf(u)]_vars

\* The doc at key_unwrapper.rs:77, "If the KMS instance ID or URL weren't
\* provided in the connection configuration, try to read them from the footer
\* key metadata": the KMS instance asked for a key of a file is the one its
\* footer names.
FooterDecides ==
    \A r \in Readers :
        reader[r].step \in {"kms", "kekkms"} /\ GivenId(Uses[r]) = Unset =>
            Instance(Conf(Uses[r]).kms_instance_id) = InstanceOf(reads[r])

Active(r) == reader[r].step \in {"update", "unwrap", "kms", "kekkms"}

\* The lock that a reader's next step takes is free: that of the configuration to
\* be written or read, or the mutex of the KEK cache.  A call of the KMS returns.
CanGoOn(r) ==
    \/ reader[r].step = "update" /\ ConfigReaders(Uses[r]) = {}
    \/ /\ reader[r].step = "unwrap"
       /\ IF MaterialOf(r, reader[r].key).double_wrapping /\ ~Holds(r)
          THEN holder[cacheOf[Uses[r]]] = None
          ELSE CanReadConfig(Uses[r])
    \/ reader[r].step \in {"kms", "kekkms"}

\* The mutex of the KEK cache and the RwLock of the configuration, which
\* key_unwrapper.rs:60 takes inside it, never leave readers waiting in a circle,
\* also where a waiting writer keeps readers out: of the readers of a KEK cache that
\* are at work one can go on, whatever those of other caches do.
NoReaderIsStuck ==
    \A r \in Readers : Active(r) =>
        \E s \in Readers : CanGoOn(s) /\ cacheOf[Uses[s]] = cacheOf[Uses[r]]

(***************************************************************************)
(* Liveness.                                                               *)
(***************************************************************************)
Ended(r) ==
    \/ reader[r].step \in {"failed", "down", "panicked"}
    \/ \A key \in KeysOf(r) : got[r][key] # None

\* The mutex and the RwLock never leave readers waiting for one another: in the
\* end each whose unwrapper was made has all the keys of its file, was refused
\* one, or has panicked.
ReadersEnd == []<>(\A r \in Readers : cacheOf[Uses[r]] # None => Ended(r))

(***************************************************************************)
(* Refinement: readers use their caches as KekCaches says, with KEK ids    *)
(* for names.                                                              *)
(***************************************************************************)
\* The KEKs that were wrapped under an id.
KeksOfId ==
    [i \in KekIds |-> {m.wrapped_kek.key : m \in {d \in DoubleWrapped : CacheKey(d) = i}}]

Abstract == INSTANCE KekCaches WITH
    Users <- Readers, Names <- KekIds, KeksFor <- KeksOfId

\* A KEK is stored by the reader that has had the mutex since it found none, under
\* the id it was wrapped with, and is never replaced; who is refused it stores
\* nothing, and after a panic nobody does (key_unwrapper.rs: unwrap_double_wrapped_key).
ImplementsKekCaches == Abstract!KCSpec
================================================================================
