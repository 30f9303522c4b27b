-------------------------- MODULE KeyUnwrapperProofs --------------------------
(* Theorems about KeyUnwrapper, for every number of readers and unwrappers and
   for all files. *)
EXTENDS KeyUnwrapper, TLAPS

(***************************************************************************)
(* The inductive invariant.                                                *)
(***************************************************************************)
ConnectionConfig ==
    [kms_instance_id: Ids, kms_instance_url: Urls, key_access_token: Configs]

\* An unwrapper points to the config it was made with or to a copy of its own, and
\* either has the token of the former.
ConfigsOK ==
    /\ heap \in [Addresses -> ConnectionConfig \cup {None}]
    /\ \A a \in Configs : heap[a] \in ConnectionConfig /\ heap[a].key_access_token = a
    /\ \A u \in Unwrappers : arc[u] = None <=> cacheOf[u] = None
    /\ \A u \in Unwrappers : arc[u] # None =>
          /\ source[u] \in Configs
          /\ arc[u] \in {source[u], u}
          /\ heap[arc[u]] \in ConnectionConfig
          /\ heap[arc[u]].key_access_token = source[u]

\* A reader at work has an unwrapper, and retrieves a key of its file.
ReadersOK ==
    \A r \in Readers : Active(r) =>
        /\ cacheOf[Uses[r]] # None
        /\ reader[r].key \in KeysOf(r)
        /\ reader[r].step = "update" => MaterialOf(r, reader[r].key).place.is_footer_key
        /\ reader[r].step = "kms" => ~MaterialOf(r, reader[r].key).double_wrapping

\* Inside the mutex of a KEK cache is a reader that uses this cache and has not
\* found its KEK there.
MutexOK ==
    /\ \A r \in Readers : reader[r].step = "kekkms" => Holds(r)
    /\ \A n \in Caches, r \in Readers : holder[n] = r =>
          /\ reader[r].step \in {"unwrap", "kekkms"}
          /\ cacheOf[Uses[r]] = n
          /\ MaterialOf(r, reader[r].key).double_wrapping
          /\ keks[n][CacheKey(MaterialOf(r, reader[r].key))] = None

\* What was unwrapped is in its cache.
HistoryOK ==
    \A a \in unwrapped :
        a.cache \in Caches /\ a.kekId \in KekIds /\ keks[a.cache][a.kekId] # None

IInv == TypeOK /\ ConfigsOK /\ ReadersOK /\ MutexOK /\ HistoryOK /\ OneUnwrapPerKek

(***************************************************************************)
(* Lemmas about the helpers.                                               *)
(***************************************************************************)
LEMMA AddressTypes == Addresses = Configs \cup Unwrappers /\ None \notin Addresses
                      /\ Kept \subseteq Configs /\ Unwrappers \cap Configs = {}
BY ConnectionAssumption DEF Addresses

LEMMA BuildType ==
    ASSUME NEW a \in Configs
    PROVE  Build(a) \in ConnectionConfig /\ Build(a).key_access_token = a
BY SetupAssumption DEF Build, ConnectionConfig

\* What a config is completed with keeps its token.
LEMMA UpdatedType ==
    ASSUME NEW c \in ConnectionConfig, NEW place,
           place.kms_instance_id \in Ids, place.kms_instance_url \in Urls
    PROVE  /\ Updated(c, place) \in ConnectionConfig
           /\ Updated(c, place).key_access_token = c.key_access_token
BY DEF Updated, GivenOr, ConnectionConfig

\* FilesAssumption, file by file.
LEMMA FileFacts ==
    ASSUME NEW f \in Files, NEW key \in DOMAIN Material[f]
    PROVE  LET m == Material[f][key]
               byKms == IF m.double_wrapping THEN m.wrapped_kek ELSE m.wrapped_dek
           IN  /\ m.place.is_footer_key <=> key = Footer
               /\ byKms.by = InstanceOf(f) /\ byKms.master = m.master_key_id
               /\ byKms.key \notin {None, Failed}
               /\ m.double_wrapping =>
                    /\ m.wrapped_dek.aad = m.key_encryption_key_id
                    /\ m.wrapped_dek.under = m.wrapped_kek.key
                    /\ m.wrapped_dek.dek # Failed
BY FilesAssumption DEF WellWritten, InstanceOf, FooterOf

LEMMA KekIdsOfMaterial ==
    ASSUME NEW f \in Files, NEW key \in DOMAIN Material[f], Material[f][key].double_wrapping
    PROVE  Material[f][key] \in DoubleWrapped /\ CacheKey(Material[f][key]) \in KekIds
BY DEF KekIds, DoubleWrapped, Range

\* Only copies, or configs that no one else has, are changed.
LEMMA MakeMutKeepsConfigs ==
    ASSUME IInv, NEW u \in Unwrappers, arc[u] # None, NEW new \in ConnectionConfig,
           new.key_access_token = source[u], MakeMut(u, new), UNCHANGED cacheOf
    PROVE  /\ ConfigsOK' /\ arc' \in [Unwrappers -> Addresses \cup {None}]
           /\ \A a \in Kept : heap'[a] = heap[a]
           /\ \A v \in Unwrappers \ {u} : arc[v] # None => Conf(v)' = Conf(v)
<1> DEFINE b == IF Shared(u) THEN u ELSE arc[u]
<1> USE AddressTypes DEF IInv, TypeOK, ConnectionTypeOK, ConfigsOK
<1>1. /\ arc' = [arc EXCEPT ![u] = b] /\ heap' = [heap EXCEPT ![b] = new]
      /\ source' = source /\ cacheOf' = cacheOf /\ b \in Addresses
    BY DEF MakeMut
<1>2. \A v \in Unwrappers \ {u} : arc[v] # None => arc[v] # b
    BY DEF Shared
<1>3. b \notin Kept
    BY DEF Shared
<1>4. b \in Configs => source[u] = b
    BY DEF Shared
<1>5. heap' \in [Addresses -> ConnectionConfig \cup {None}]
    BY <1>1
<1>6. arc' \in [Unwrappers -> Addresses \cup {None}]
    BY <1>1
<1>7. \A a \in Configs : heap'[a] \in ConnectionConfig /\ heap'[a].key_access_token = a
    BY <1>1, <1>4
<1>8. ASSUME NEW v \in Unwrappers, arc'[v] # None
      PROVE  /\ source'[v] \in Configs /\ arc'[v] \in {source'[v], v}
             /\ heap'[arc'[v]] \in ConnectionConfig
             /\ heap'[arc'[v]].key_access_token = source'[v]
    <2>1. CASE v = u
        <3>1. arc'[v] = b /\ heap'[b] = new
            BY <1>1, <2>1
        <3> QED
            BY <1>1, <2>1, <3>1
    <2>2. CASE v # u
        <3>1. arc'[v] = arc[v] /\ arc[v] # b
            BY <1>1, <1>2, <1>8, <2>2
        <3>2. heap'[arc[v]] = heap[arc[v]]
            BY <1>1, <3>1
        <3> QED
            BY <1>1, <1>8, <3>1, <3>2
    <2> QED
        BY <2>1, <2>2
<1>9. \A v \in Unwrappers : arc'[v] = None <=> cacheOf'[v] = None
    BY <1>1
<1>10. \A v \in Unwrappers \ {u} : arc[v] # None => Conf(v)' = Conf(v)
    BY <1>1, <1>2 DEF Conf
<1> QED
    BY <1>1, <1>3, <1>5, <1>6, <1>7, <1>8, <1>9, <1>10

LEMMA ReaderTypes ==
    ASSUME TypeOK, NEW r \in Readers
    PROVE  /\ Uses[r] \in Unwrappers /\ reads[r] \in Files /\ KeysOf(r) \subseteq Keys
           /\ cacheOf[Uses[r]] # None => cacheOf[Uses[r]] \in Caches
           /\ None \notin Keys /\ None \notin Readers
           /\ reader[r].step \in Steps /\ reader[r].key \in Keys \cup {None}
BY SetupAssumption DEF TypeOK, KeysOf, Reader

\* A reader at work retrieves a key with such material.
LEMMA MaterialTypes ==
    ASSUME TypeOK, ReadersOK, NEW r \in Readers, Active(r)
    PROVE  LET m == MaterialOf(r, reader[r].key)
           IN  /\ m.double_wrapping => CacheKey(m) \in KekIds /\ m.wrapped_kek.key # None
               /\ m.place.is_footer_key =>
                    m.place.kms_instance_id \in Ids /\ m.place.kms_instance_url \in Urls
<1>1. reads[r] \in Files /\ reader[r].key \in DOMAIN Material[reads[r]]
    BY ReaderTypes DEF ReadersOK, KeysOf
<1> QED
    BY <1>1, SetupAssumption, FileFacts, KekIdsOfMaterial DEF MaterialOf

\* A reader in the mutex of a KEK cache is in the one it uses, and alone.
LEMMA InMutex ==
    ASSUME IInv, NEW r \in Readers, reader[r].step = "kekkms"
    PROVE  /\ cacheOf[Uses[r]] \in Caches /\ holder[cacheOf[Uses[r]]] = r
           /\ \A n \in Caches : holder[n] = r => n = cacheOf[Uses[r]]
           /\ MaterialOf(r, reader[r].key).double_wrapping
           /\ keks[cacheOf[Uses[r]]][CacheKey(MaterialOf(r, reader[r].key))] = None
<1>1. cacheOf[Uses[r]] \in Caches /\ holder[cacheOf[Uses[r]]] = r
    BY ReaderTypes DEF IInv, ReadersOK, Active, MutexOK, Holds
<1> QED
    BY <1>1 DEF IInv, MutexOK

\* Elsewhere a reader is in no mutex, unless it is on its way to the KMS.
LEMMA OutsideMutex ==
    ASSUME IInv, NEW r \in Readers,
           \/ reader[r].step \notin {"unwrap", "kekkms"}
           \/ ~MaterialOf(r, reader[r].key).double_wrapping
           \/ holder[cacheOf[Uses[r]]] # r
    PROVE  \A n \in Caches : holder[n] # r
BY DEF IInv, MutexOK

(***************************************************************************)
(* The invariant holds initially, and every action preserves it.           *)
(***************************************************************************)
LEMMA InitInv == Init => IInv
<1> SUFFICES ASSUME Init PROVE IInv
    OBVIOUS
<1> USE SetupAssumption, ConnectionAssumption, AddressTypes DEF Init, ConnectionInit
<1>1. \A a \in Configs : Build(a) \in ConnectionConfig /\ Build(a).key_access_token = a
    BY BuildType
<1>2. ConnectionTypeOK
    BY <1>1 DEF ConnectionTypeOK, ConnectionConfig
<1>3. \A r \in Readers : reader[r] = [step |-> "idle", key |-> None]
    OBVIOUS
<1>4. TypeOK
    BY <1>2, <1>3 DEF TypeOK, Reader, Steps, Caches
<1>5. ConfigsOK
    BY <1>1 DEF ConfigsOK
<1>6. ReadersOK
    BY <1>3 DEF ReadersOK, Active
<1>7. MutexOK
    BY <1>3 DEF MutexOK
<1>8. HistoryOK /\ OneUnwrapPerKek
    BY DEF HistoryOK, OneUnwrapPerKek
<1> QED
    BY <1>4, <1>5, <1>6, <1>7, <1>8 DEF IInv

\* What a config is does not change where those of all unwrappers stay.
LEMMA ConfigsStay ==
    ASSUME IInv, UNCHANGED <<configVars, cacheOf>>
    PROVE  ConfigsOK' /\ ConnectionTypeOK'
           /\ \A u \in Unwrappers : (arc[u] # None => Conf(u).kms_instance_id \in Ids /\ Conf(u).kms_instance_url \in Urls)'
<1> USE DEF IInv, TypeOK, configVars
<1>1. ConfigsOK'
    BY DEF ConfigsOK
<1>2. ConnectionTypeOK'
    BY DEF ConnectionTypeOK, Addresses
<1> QED
    BY <1>1, <1>2 DEF Conf

\* One unwrapper is made.
LEMMA NewUnwrapperInv ==
    ASSUME IInv, NEW u \in Unwrappers, NEW a \in Configs, NewUnwrapper(u, a)
    PROVE  IInv'
<1> DEFINE tok == token[heap[a].key_access_token]
           cache == IF live[tok] # None THEN live[tok] ELSE created + 1
<1>1. /\ cache \in Caches /\ cacheOf' = [cacheOf EXCEPT ![u] = cache]
      /\ live' = [live EXCEPT ![tok] = cache]
      /\ created' = IF live[tok] # None THEN created ELSE cache
      /\ arc[u] = None /\ arc' = [arc EXCEPT ![u] = a] /\ source' = [source EXCEPT ![u] = a]
      /\ UNCHANGED <<heap, token, cacheVars, reader, reads, got>>
    BY DEF NewUnwrapper, PassOn
<1> USE AddressTypes DEF IInv, TypeOK
<1>2. tok \in Tokens /\ heap[a] \in ConnectionConfig /\ heap[a].key_access_token = a
    BY DEF ConfigsOK, ConnectionTypeOK
<1>3. cache # None /\ cache \in 1 .. MaxCaches /\ cacheOf[u] = None
    BY <1>1, SetupAssumption DEF ConfigsOK, Caches
<1>4. /\ live' \in [Tokens -> Caches \cup {None}] /\ created' \in 0 .. MaxCaches
      /\ cacheOf' \in [Unwrappers -> Caches \cup {None}]
    BY <1>1, <1>2, <1>3, SetupAssumption DEF Caches
<1>5. ConnectionTypeOK'
    BY <1>1 DEF ConnectionTypeOK
<1>6. ConfigsOK'
    BY <1>1, <1>2, <1>3 DEF ConfigsOK, ConnectionTypeOK
<1>7. \A v \in Unwrappers : arc'[v] # None =>
          heap'[arc'[v]].kms_instance_id \in Ids /\ heap'[arc'[v]].kms_instance_url \in Urls
    BY <1>6 DEF ConfigsOK, ConnectionConfig
<1>8. TypeOK'
    BY <1>1, <1>4, <1>5, <1>7 DEF cacheVars, Conf
<1>9. \A r \in Readers : cacheOf[Uses[r]] # None => cacheOf'[Uses[r]] = cacheOf[Uses[r]]
    BY <1>1, <1>3, ReaderTypes
<1>10. ReadersOK'
    BY <1>1, <1>3, <1>9, ReaderTypes DEF ReadersOK, Active, KeysOf, MaterialOf
<1>11. MutexOK'
    <2>1. \A r \in Readers : reader[r].step = "kekkms" => cacheOf[Uses[r]] # None
        BY DEF ReadersOK, Active
    <2>2. ASSUME NEW r \in Readers, reader'[r].step = "kekkms" PROVE Holds(r)'
        BY <1>1, <1>9, <2>1, <2>2 DEF MutexOK, Holds, cacheVars
    <2>3. ASSUME NEW n \in Caches, NEW r \in Readers, holder'[n] = r
          PROVE  /\ reader'[r].step \in {"unwrap", "kekkms"} /\ cacheOf'[Uses[r]] = n
                 /\ MaterialOf(r, reader[r].key)'.double_wrapping
                 /\ keks'[n][CacheKey(MaterialOf(r, reader[r].key)')] = None
        <3>1. cacheOf[Uses[r]] = n /\ n # None
            BY <1>1, <2>3, SetupAssumption DEF MutexOK, cacheVars, ReadersOK, Active
        <3> QED
            BY <1>1, <1>9, <2>3, <3>1 DEF MutexOK, cacheVars, MaterialOf
    <2> QED
        BY <2>2, <2>3 DEF MutexOK
<1>12. HistoryOK' /\ OneUnwrapPerKek'
    BY <1>1 DEF HistoryOK, OneUnwrapPerKek, cacheVars
<1> QED
    BY <1>6, <1>8, <1>10, <1>11, <1>12

\* A reader's step that ends its retrieval, outside of any mutex or leaving it.
LEMMA LeaveInv ==
    ASSUME IInv, NEW r \in Readers, NEW step \in {"idle", "failed", "down", "panicked"},
           Stop(r, step), UNCHANGED <<live, created, cacheOf, configVars, reads, keks, unwrapped>>,
           DOMAIN got' = Readers, poisoned' \subseteq Caches,
           \/ holder' = holder /\ \A n \in Caches : holder[n] # r
           \/ holder' = [holder EXCEPT ![cacheOf[Uses[r]]] = None] /\ reader[r].step = "kekkms"
    PROVE  IInv'
<1> USE DEF IInv, TypeOK
<1>1. /\ reader' = [reader EXCEPT ![r] = [step |-> step, key |-> None]]
      /\ [step |-> step, key |-> None] \in Reader
    BY DEF Stop, Reader, Steps
<1>2. /\ holder' \in [Caches -> Readers \cup {None}]
      /\ \A n \in Caches : holder'[n] # r
      /\ \A n \in Caches, q \in Readers : q # r => (holder'[n] = q <=> holder[n] = q)
    <2>1. CASE holder' = holder
        BY <2>1, InMutex, ReaderTypes
    <2>2. CASE holder' # holder
        BY <2>2, InMutex, ReaderTypes
    <2> QED
        BY <2>1, <2>2
<1>3. TypeOK'
    BY <1>1, <1>2, ConfigsStay
<1>4. ReadersOK'
    BY <1>1 DEF ReadersOK, Active, KeysOf, MaterialOf
<1>5. MutexOK'
    <2>1. ASSUME NEW q \in Readers, reader'[q].step = "kekkms" PROVE Holds(q)'
        BY <1>1, <1>2, <2>1, InMutex DEF MutexOK, Holds
    <2>2. \A n \in Caches, q \in Readers : holder'[n] = q => q # r /\ holder[n] = q /\ reader'[q] = reader[q]
        BY <1>1, <1>2
    <2> QED
        BY <2>1, <2>2 DEF MutexOK, MaterialOf
<1>6. HistoryOK' /\ OneUnwrapPerKek'
    BY DEF HistoryOK, OneUnwrapPerKek
<1> QED
    BY <1>3, <1>4, <1>5, <1>6, ConfigsStay

LEMMA UpdateConfigInv ==
    ASSUME IInv, NEW r \in Readers, UpdateConfig(r)
    PROVE  /\ IInv' /\ \A a \in Kept : heap'[a] = heap[a]
           /\ \A v \in Unwrappers : arc[v] # None /\ IsComplete(Conf(v)) => Conf(v)' = Conf(v)
<1> DEFINE u == Uses[r]
           c == Conf(u)
           place == MaterialOf(r, reader[r].key).place
           new == Updated(c, place)
           next == IF IsComplete(new) THEN "unwrap" ELSE "failed"
<1> USE DEF IInv, TypeOK
<1>1. /\ reader[r].step = "update"
      /\ \/ UNCHANGED configVars
         \/ ~IsComplete(c) /\ MakeMut(u, IF new.kms_instance_id = Unset THEN c ELSE new)
      /\ reader' = [reader EXCEPT ![r].step = next]
      /\ UNCHANGED <<live, created, cacheOf, cacheVars, reads, got>>
    BY DEF UpdateConfig, MoveTo
<1>2. u \in Unwrappers /\ cacheOf[u] # None /\ arc[u] # None /\ c \in ConnectionConfig
      /\ c.key_access_token = source[u]
    BY <1>1, ReaderTypes DEF ReadersOK, Active, ConfigsOK, Conf
<1>3. place.kms_instance_id \in Ids /\ place.kms_instance_url \in Urls
    BY <1>1, MaterialTypes DEF ReadersOK, Active
<1>4. new \in ConnectionConfig /\ new.key_access_token = source[u]
    BY <1>2, <1>3, UpdatedType
<1>5. /\ ConfigsOK' /\ arc' \in [Unwrappers -> Addresses \cup {None}]
      /\ \A a \in Kept : heap'[a] = heap[a]
      /\ \A v \in Unwrappers : arc[v] # None /\ IsComplete(Conf(v)) => Conf(v)' = Conf(v)
    <2>1. CASE UNCHANGED configVars
        BY <1>1, <2>1, ConfigsStay DEF configVars, ConnectionTypeOK, Conf
    <2>2. CASE ~IsComplete(c) /\ MakeMut(u, IF new.kms_instance_id = Unset THEN c ELSE new)
        BY <1>1, <1>2, <1>4, <2>2, MakeMutKeepsConfigs
    <2> QED
        BY <1>1, <2>1, <2>2
<1>6. source' = source /\ token' = token
    BY <1>1 DEF configVars, MakeMut
<1>7. ConnectionTypeOK' /\ \A v \in Unwrappers : arc'[v] # None =>
          heap'[arc'[v]].kms_instance_id \in Ids /\ heap'[arc'[v]].kms_instance_url \in Urls
    BY <1>5, <1>6, AddressTypes DEF ConfigsOK, ConnectionTypeOK, ConnectionConfig
<1>8. reader'[r] = [reader[r] EXCEPT !.step = next] /\ next \in Steps
      /\ \A q \in Readers \ {r} : reader'[q] = reader[q]
    BY <1>1 DEF Steps
<1>9. reader' \in [Readers -> Reader]
    BY <1>1, <1>8 DEF Reader
<1>10. TypeOK'
    BY <1>1, <1>7, <1>9 DEF cacheVars, Conf
<1>11. /\ reader'[r].step = next /\ reader'[r].key = reader[r].key
       /\ reader'[r].step \in {"unwrap", "failed"}
    BY <1>8, ReaderTypes DEF Reader
<1>12. ReadersOK'
    BY <1>1, <1>8, <1>11, <1>2 DEF ReadersOK, Active, KeysOf, MaterialOf
<1>13. MutexOK'
    <2>1. \A n \in Caches : holder[n] # r
        BY <1>1, OutsideMutex
    <2>2. ASSUME NEW q \in Readers, reader'[q].step = "kekkms" PROVE Holds(q)'
        BY <1>1, <1>8, <1>11, <2>2 DEF MutexOK, Holds, cacheVars
    <2>3. \A n \in Caches, q \in Readers : holder'[n] = q =>
              holder[n] = q /\ reader'[q] = reader[q]
        BY <1>1, <1>8, <2>1 DEF cacheVars
    <2>4. ASSUME NEW n \in Caches, NEW q \in Readers, holder'[n] = q
          PROVE  /\ reader'[q].step \in {"unwrap", "kekkms"} /\ cacheOf'[Uses[q]] = n
                 /\ MaterialOf(q, reader[q].key)'.double_wrapping
                 /\ keks'[n][CacheKey(MaterialOf(q, reader[q].key)')] = None
        <3>1. /\ holder[n] = q /\ reader'[q] = reader[q] /\ keks'[n] = keks[n]
              /\ reads' = reads /\ cacheOf' = cacheOf
            BY <1>1, <2>3, <2>4 DEF cacheVars
        <3> QED
            BY <2>4, <3>1 DEF MutexOK, MaterialOf
    <2> QED
        BY <2>2, <2>4 DEF MutexOK
<1>14. HistoryOK' /\ OneUnwrapPerKek'
    BY <1>1 DEF HistoryOK, OneUnwrapPerKek, cacheVars
<1>15. IInv'
    BY <1>5, <1>10, <1>12, <1>13, <1>14 DEF IInv
<1> HIDE DEF IInv, TypeOK, u, c, place, new, next
<1> QED
    BY <1>5, <1>15

\* The steps of a reader on its way to the KMS.
LEMMA RetrieveInv ==
    ASSUME IInv, NEW r \in Readers, NEW key \in Keys, Retrieve(r, key)
    PROVE  IInv'
<1> DEFINE next == IF MaterialOf(r, key).place.is_footer_key THEN "update" ELSE "unwrap"
<1> USE DEF IInv, TypeOK
<1>1. /\ reader[r].step = "idle" /\ cacheOf[Uses[r]] # None /\ key \in KeysOf(r)
      /\ reader' = [reader EXCEPT ![r] = [step |-> next, key |-> key]]
      /\ UNCHANGED <<live, created, cacheOf, configVars, cacheVars, reads, got>>
    BY DEF Retrieve
<1>2. [step |-> next, key |-> key] \in Reader
    BY DEF Reader, Steps
<1>3. TypeOK'
    BY <1>1, <1>2, ConfigsStay DEF cacheVars
<1>4. ReadersOK'
    BY <1>1 DEF ReadersOK, Active, KeysOf, MaterialOf
<1>5. MutexOK'
    <2>1. \A n \in Caches : holder[n] # r
        BY <1>1, OutsideMutex
    <2> QED
        BY <1>1, <2>1 DEF MutexOK, Holds, MaterialOf, cacheVars
<1>6. HistoryOK' /\ OneUnwrapPerKek'
    BY <1>1 DEF HistoryOK, OneUnwrapPerKek, cacheVars
<1> QED
    BY <1>1, <1>3, <1>4, <1>5, <1>6, ConfigsStay

LEMMA MissKekInv ==
    ASSUME IInv, NEW r \in Readers, MissKek(r)
    PROVE  IInv'
<1> DEFINE cache == cacheOf[Uses[r]]
<1> USE DEF IInv, TypeOK
<1>1. /\ reader[r].step = "unwrap" /\ MaterialOf(r, reader[r].key).double_wrapping
      /\ holder[cache] = None /\ keks[cache][CacheKey(MaterialOf(r, reader[r].key))] = None
      /\ holder' = [holder EXCEPT ![cache] = r]
      /\ UNCHANGED <<live, created, cacheOf, reads, configVars, keks, poisoned, unwrapped, reader, got>>
    BY DEF MissKek
<1>2. cache \in Caches /\ None \notin Readers
    BY <1>1, ReaderTypes DEF ReadersOK, Active
<1>3. TypeOK'
    BY <1>1, <1>2, ConfigsStay
<1>4. ReadersOK'
    BY <1>1 DEF ReadersOK, Active, KeysOf, MaterialOf
<1>5. MutexOK'
    BY <1>1, <1>2, ReaderTypes, InMutex DEF MutexOK, Holds, MaterialOf
<1>6. HistoryOK' /\ OneUnwrapPerKek'
    BY <1>1 DEF HistoryOK, OneUnwrapPerKek
<1> QED
    BY <1>1, <1>3, <1>4, <1>5, <1>6, ConfigsStay

LEMMA CallKmsInv ==
    ASSUME IInv, NEW r \in Readers, CallKms(r)
    PROVE  IInv'
<1> USE DEF IInv, TypeOK
<1>1. PICK next \in {"kms", "kekkms"} :
          /\ reader[r].step = "unwrap"
          /\ next = "kms" => ~MaterialOf(r, reader[r].key).double_wrapping
          /\ next = "kekkms" => Holds(r)
          /\ reader' = [reader EXCEPT ![r].step = next]
          /\ UNCHANGED <<live, created, cacheOf, configVars, cacheVars, reads, got>>
    BY DEF CallKms, MoveTo
<1>2. reader'[r] = [reader[r] EXCEPT !.step = next] /\ next \in Steps
      /\ \A q \in Readers \ {r} : reader'[q] = reader[q]
    BY <1>1 DEF Steps
<1>3. reader' \in [Readers -> Reader] /\ reader'[r].step = next /\ reader'[r].key = reader[r].key
    BY <1>1, <1>2 DEF Reader
<1>4. TypeOK'
    BY <1>1, <1>3, ConfigsStay DEF cacheVars
<1>5. ReadersOK'
    BY <1>1, <1>2, <1>3 DEF ReadersOK, Active, KeysOf, MaterialOf
<1>6. MutexOK'
    <2>1. next = "kms" => \A n \in Caches : holder[n] # r
        BY <1>1, OutsideMutex
    <2> QED
        BY <1>1, <1>2, <1>3, <2>1 DEF MutexOK, Holds, MaterialOf, cacheVars
<1>7. HistoryOK' /\ OneUnwrapPerKek'
    BY <1>1 DEF HistoryOK, OneUnwrapPerKek, cacheVars
<1> QED
    BY <1>1, <1>4, <1>5, <1>6, <1>7, ConfigsStay

\* The KMS has unwrapped a KEK, and the cache's mutex is left.
LEMMA KekUnwrappedInv ==
    ASSUME IInv, NEW r \in Readers, KekUnwrapped(r)
    PROVE  IInv'
<1> DEFINE cache == cacheOf[Uses[r]]
           m == MaterialOf(r, reader[r].key)
           kek == UnwrapKey(Conf(Uses[r]).kms_instance_id, m.master_key_id, m.wrapped_kek)
           entry == [by |-> r, for |-> reader[r].key, cache |-> cache,
                     kekId |-> m.key_encryption_key_id]
           step == IF Decrypted(m, kek) = Failed THEN "failed" ELSE "idle"
<1> USE DEF IInv, TypeOK
<1>1. /\ reader[r].step = "kekkms" /\ kek # Failed
      /\ keks' = [keks EXCEPT ![cache][CacheKey(m)] = kek]
      /\ unwrapped' = unwrapped \cup {entry}
      /\ holder' = [holder EXCEPT ![cache] = None]
      /\ reader' = [reader EXCEPT ![r] = [step |-> step, key |-> None]]
      /\ DOMAIN got' = Readers
      /\ UNCHANGED <<live, created, cacheOf, reads, configVars, poisoned>>
    BY DEF KekUnwrapped, Answer, Stop
<1>2. /\ cache \in Caches /\ holder[cache] = r /\ m.double_wrapping
      /\ \A n \in Caches : holder[n] = r => n = cache
      /\ keks[cache][CacheKey(m)] = None
    BY <1>1, InMutex
<1>3. CacheKey(m) \in KekIds /\ kek # None /\ [step |-> step, key |-> None] \in Reader
    BY <1>1, <1>2, MaterialTypes DEF Active, UnwrapKey, Reader, Steps
<1>4. /\ DOMAIN keks' = Caches /\ \A n \in Caches : DOMAIN keks'[n] = KekIds
      /\ keks'[cache][CacheKey(m)] = kek
      /\ \A n \in Caches, i \in KekIds : keks[n][i] # None => keks'[n][i] # None
      /\ \A n \in Caches : n # cache => keks'[n] = keks[n]
    BY <1>1, <1>2, <1>3
<1>5. TypeOK'
    BY <1>1, <1>2, <1>3, <1>4, ConfigsStay
<1>6. ReadersOK'
    BY <1>1 DEF ReadersOK, Active, KeysOf, MaterialOf
<1>7. MutexOK'
    <2>1. \A n \in Caches, q \in Readers : holder'[n] = q =>
              q # r /\ n # cache /\ holder[n] = q /\ reader'[q] = reader[q] /\ keks'[n] = keks[n]
        BY <1>1, <1>2, <1>4, ReaderTypes
    <2>2. ASSUME NEW q \in Readers, reader'[q].step = "kekkms" PROVE Holds(q)'
        <3>1. q # r /\ reader[q].step = "kekkms"
            BY <1>1, <2>2
        <3>2. cacheOf[Uses[q]] \in Caches /\ holder[cacheOf[Uses[q]]] = q
            BY <3>1, InMutex
        <3> QED
            BY <1>1, <1>2, <3>1, <3>2 DEF Holds
    <2>3. ASSUME NEW n \in Caches, NEW q \in Readers, holder'[n] = q
          PROVE  /\ reader'[q].step \in {"unwrap", "kekkms"} /\ cacheOf'[Uses[q]] = n
                 /\ MaterialOf(q, reader[q].key)'.double_wrapping
                 /\ keks'[n][CacheKey(MaterialOf(q, reader[q].key)')] = None
        <3>1. /\ holder[n] = q /\ reader'[q] = reader[q] /\ keks'[n] = keks[n]
              /\ reads' = reads /\ cacheOf' = cacheOf
            BY <1>1, <2>1, <2>3
        <3> QED
            BY <2>3, <3>1 DEF MutexOK, MaterialOf
    <2> QED
        BY <2>2, <2>3 DEF MutexOK
<1>8. HistoryOK'
    BY <1>1, <1>2, <1>3, <1>4 DEF HistoryOK, CacheKey
<1>9. OneUnwrapPerKek'
    <2>1. \A a \in unwrapped : ~(a.cache = entry.cache /\ a.kekId = entry.kekId)
        BY <1>2 DEF HistoryOK, CacheKey
    <2> QED
        BY <1>1, <2>1 DEF OneUnwrapPerKek
<1> QED
    BY <1>1, <1>5, <1>6, <1>7, <1>8, <1>9, ConfigsStay

\* The other steps that end a retrieval.
LEMMA EndInv ==
    ASSUME IInv, NEW r \in Readers,
           UseKek(r) \/ DekUnwrapped(r) \/ KekRefused(r) \/ KmsFails(r) \/ KmsPanics(r) \/ Reject(r)
    PROVE  IInv'
<1> USE DEF IInv, TypeOK
<1>1. reader[r].step = "kekkms" => cacheOf[Uses[r]] \in Caches
    BY InMutex
<1>2. CASE UseKek(r) \/ DekUnwrapped(r)
    <2>1. \A n \in Caches : holder[n] # r
        BY <1>2, OutsideMutex, ReaderTypes DEF UseKek, DekUnwrapped
    <2>2. PICK step \in {"idle", "failed"} : Stop(r, step)
        BY <1>2 DEF UseKek, DekUnwrapped, Answer
    <2>3. DOMAIN got' = Readers /\ UNCHANGED <<live, created, cacheOf, configVars, reads, cacheVars>>
        BY <1>2 DEF UseKek, DekUnwrapped, Answer
    <2> QED
        BY <2>1, <2>2, <2>3, LeaveInv DEF cacheVars
<1>3. CASE KekRefused(r)
    <2>1. PICK step \in {"idle", "failed"} : Stop(r, step)
        BY <1>3 DEF KekRefused, Answer
    <2>2. /\ DOMAIN got' = Readers /\ reader[r].step = "kekkms"
          /\ holder' = [holder EXCEPT ![cacheOf[Uses[r]]] = None]
          /\ UNCHANGED <<live, created, cacheOf, configVars, reads, keks, unwrapped, poisoned>>
        BY <1>3 DEF KekRefused, Answer
    <2> QED
        BY <2>1, <2>2, LeaveInv
<1>4. CASE KmsFails(r) \/ KmsPanics(r)
    <2>1. PICK step \in {"down", "panicked"} : Stop(r, step)
        BY <1>4 DEF KmsFails, KmsPanics
    <2>2. /\ poisoned' \subseteq Caches
          /\ UNCHANGED <<live, created, cacheOf, configVars, reads, keks, unwrapped, got>>
        BY <1>1, <1>4 DEF KmsFails, KmsPanics
    <2>3. \/ holder' = holder /\ \A n \in Caches : holder[n] # r
          \/ holder' = [holder EXCEPT ![cacheOf[Uses[r]]] = None] /\ reader[r].step = "kekkms"
        BY <1>4, OutsideMutex DEF KmsFails, KmsPanics
    <2> QED
        BY <2>1, <2>2, <2>3, LeaveInv
<1>5. CASE Reject(r)
    <2>1. /\ Stop(r, "panicked") /\ holder[cacheOf[Uses[r]]] # r
          /\ UNCHANGED <<live, created, cacheOf, configVars, cacheVars, reads, got>>
        BY <1>5, ReaderTypes DEF Reject
    <2>2. \A n \in Caches : holder[n] # r
        BY <2>1, OutsideMutex
    <2> QED
        BY <2>1, <2>2, LeaveInv DEF cacheVars
<1> QED
    BY <1>2, <1>3, <1>4, <1>5

\* The KMS manager and the application.
LEMMA OthersInv ==
    ASSUME IInv,
           \/ \E tok \in Tokens : Expire(tok)
           \/ \E a \in Configs, tok \in Tokens : Refresh(a, tok)
           \/ UNCHANGED vars
    PROVE  IInv' /\ UNCHANGED heap /\ UNCHANGED arc
<1> USE DEF IInv, TypeOK
<1>1. /\ UNCHANGED <<created, cacheOf, cacheVars, reads, reader, got, arc, source, heap>>
      /\ live' \in [Tokens -> Caches \cup {None}] /\ token' \in [Configs -> Tokens]
    <2>1. CASE \E tok \in Tokens : Expire(tok)
        BY <2>1 DEF Expire, configVars, ConnectionTypeOK
    <2>2. CASE \E a \in Configs, tok \in Tokens : Refresh(a, tok)
        BY <2>2 DEF Refresh, RefreshKeyAccessToken, ConnectionTypeOK
    <2>3. CASE UNCHANGED vars
        BY <2>3 DEF vars, configVars, ConnectionTypeOK
    <2> QED
        BY <2>1, <2>2, <2>3
<1>2. ConnectionTypeOK'
    BY <1>1 DEF ConnectionTypeOK, Addresses
<1>3. TypeOK'
    BY <1>1, <1>2 DEF cacheVars, Conf
<1>4. ConfigsOK'
    BY <1>1 DEF ConfigsOK
<1>5. ReadersOK'
    BY <1>1 DEF ReadersOK, Active, KeysOf, MaterialOf
<1>6. MutexOK'
    BY <1>1 DEF MutexOK, Holds, MaterialOf, cacheVars
<1>7. HistoryOK' /\ OneUnwrapPerKek'
    BY <1>1 DEF HistoryOK, OneUnwrapPerKek, cacheVars
<1> QED
    BY <1>1, <1>3, <1>4, <1>5, <1>6, <1>7

\* Every step preserves the invariant, and leaves alone the configs the application
\* keeps and those that are complete.
LEMMA NextInv ==
    ASSUME IInv, [Next]_vars
    PROVE  /\ IInv' /\ \A a \in Kept : heap'[a] = heap[a]
           /\ \A v \in Unwrappers : arc[v] # None /\ IsComplete(Conf(v)) => Conf(v)' = Conf(v)
<1>1. ASSUME NEW u \in Unwrappers, NEW a \in Configs, NewUnwrapper(u, a)
      PROVE  IInv' /\ heap' = heap /\ \A v \in Unwrappers : arc[v] # None => arc'[v] = arc[v]
    BY <1>1, NewUnwrapperInv DEF NewUnwrapper, PassOn, IInv, TypeOK, ConnectionTypeOK
<1>2. ASSUME NEW r \in Readers, UpdateConfig(r)
      PROVE  /\ IInv' /\ \A a \in Kept : heap'[a] = heap[a]
             /\ \A v \in Unwrappers : arc[v] # None /\ IsComplete(Conf(v)) => Conf(v)' = Conf(v)
    BY <1>2, UpdateConfigInv
<1>3. ASSUME NEW r \in Readers, Proceed(r), ~UpdateConfig(r)
      PROVE  IInv' /\ heap' = heap /\ arc' = arc
    <2>1. heap' = heap /\ arc' = arc
        BY <1>3 DEF Proceed, Retrieve, UseKek, MissKek, CallKms, DekUnwrapped, KekUnwrapped,
                    KekRefused, KmsFails, KmsPanics, Reject, configVars
    <2> QED
        BY <1>3, <2>1, RetrieveInv, MissKekInv, CallKmsInv, KekUnwrappedInv, EndInv DEF Proceed
<1>4. ASSUME \/ \E tok \in Tokens : Expire(tok)
             \/ \E a \in Configs, tok \in Tokens : Refresh(a, tok)
             \/ UNCHANGED vars
      PROVE  IInv' /\ heap' = heap /\ arc' = arc
    BY <1>4, OthersInv
<1> QED
    BY <1>1, <1>2, <1>3, <1>4 DEF Next, Conf

(***************************************************************************)
(* What holds of every behaviour.                                          *)
(***************************************************************************)
\* IInv is an invariant of retrieve_key and what runs beside it.
THEOREM Invariance == Spec => []IInv
<1>1. IInv /\ [Next]_vars => IInv'
    BY NextInv
<1> QED
    BY InitInv, <1>1, PTL DEF Spec

\* Caches, configurations and readers keep their types.
THEOREM TypeCorrect == Spec => []TypeOK
<1>1. IInv => TypeOK
    BY DEF IInv
<1> QED
    BY Invariance, <1>1, PTL

\* However many readers and unwrappers share a KEK cache, each KEK in it was
\* unwrapped once (unwrap_double_wrapped_key, key_unwrapper.rs:56).
THEOREM OneUnwrap == Spec => []OneUnwrapPerKek
<1>1. IInv => OneUnwrapPerKek
    BY DEF IInv
<1> QED
    BY Invariance, <1>1, PTL

\* Whichever unwrappers copied the config since (key_unwrapper.rs:94), all of them
\* have the token of a refresh.
THEOREM RefreshReaches == Spec => []RefreshReachesUnwrappers
<1>1. IInv => RefreshReachesUnwrappers
    BY DEF IInv, ConfigsOK, RefreshReachesUnwrappers, KeyAccessToken, Conf
<1> QED
    BY Invariance, <1>1, PTL

\* No reader changes a config the application kept (Arc::make_mut,
\* key_unwrapper.rs:94).
THEOREM ConfigUntouched == Spec => CallersConfigUntouched
<1>1. IInv /\ [Next]_vars => [\A a \in Kept : heap'[a] = heap[a]]_heap
    BY NextInv
<1> QED
    BY Invariance, <1>1, PTL DEF Spec, CallersConfigUntouched

\* A complete configuration stays as it is (update_kms_config_from_footer_metadata,
\* key_unwrapper.rs:83).
THEOREM Settles == Spec => ConfigSettles
<1>1. IInv /\ [Next]_vars =>
          [\A u \in Unwrappers : arc[u] # None /\ IsComplete(Conf(u)) => Conf(u)' = Conf(u)]_vars
    BY NextInv
<1> QED
    BY Invariance, <1>1, PTL DEF Spec, ConfigSettles

(***************************************************************************)
(* Who waits for whom.                                                     *)
(***************************************************************************)
\* Who waits for the mutex waits for a reader that waits for the configuration at
\* most, who reads that for a footer that writes it, and the footer for the KMS.
LEMMA WaitingEnds == IInv => NoReaderIsStuck
<1> SUFFICES ASSUME IInv, NEW r \in Readers, Active(r)
             PROVE  \E s \in Readers : CanGoOn(s) /\ cacheOf[Uses[s]] = cacheOf[Uses[r]]
    BY DEF NoReaderIsStuck
<1> DEFINE Beside(s) == s \in Readers /\ cacheOf[Uses[s]] = cacheOf[Uses[r]]
           OneGoesOn == \E s : Beside(s) /\ CanGoOn(s)
           WantsMutex(s) == MaterialOf(s, reader[s].key).double_wrapping /\ ~Holds(s)
<1>1. ASSUME NEW s, Beside(s), reader[s].step = "update" PROVE OneGoesOn
    <2>1. CASE ConfigReaders(Uses[s]) = {}
        BY <1>1, <2>1 DEF CanGoOn
    <2>2. ASSUME NEW q \in ConfigReaders(Uses[s]) PROVE OneGoesOn
        BY <1>1, <2>2 DEF ConfigReaders, CanGoOn
    <2> QED
        BY <2>1, <2>2
<1>2. ASSUME NEW s, Beside(s), reader[s].step = "unwrap", ~WantsMutex(s) PROVE OneGoesOn
    <2>1. CASE CanReadConfig(Uses[s])
        BY <1>2, <2>1 DEF CanGoOn
    <2>2. CASE ~CanReadConfig(Uses[s])
        <3>1. PICK q \in Readers : reader[q].step = "update" /\ Uses[q] = Uses[s]
            BY <2>2 DEF CanReadConfig
        <3>2. Beside(q)
            BY <3>1, <1>2
        <3> QED
            BY <3>1, <3>2, <1>1
    <2> QED
        BY <2>1, <2>2
<1>3. ASSUME NEW s, Beside(s), reader[s].step \in {"kms", "kekkms"} PROVE OneGoesOn
    BY <1>3 DEF CanGoOn
<1>4. ASSUME reader[r].step = "unwrap", WantsMutex(r) PROVE OneGoesOn
    <2> DEFINE h == holder[cacheOf[Uses[r]]]
    <2>1. CASE h = None
        BY <1>4, <2>1 DEF CanGoOn
    <2>2. CASE h # None
        <3>1. cacheOf[Uses[r]] \in Caches
            BY ReaderTypes DEF IInv, ReadersOK
        <3>2. h \in Readers
            BY <3>1, <2>2 DEF IInv, TypeOK
        <3>3. reader[h].step \in {"unwrap", "kekkms"} /\ cacheOf[Uses[h]] = cacheOf[Uses[r]]
            BY <3>1, <3>2 DEF IInv, MutexOK
        <3>4. Beside(h) /\ ~WantsMutex(h)
            BY <3>2, <3>3 DEF Holds
        <3> QED
            BY <3>3, <3>4, <1>2, <1>3
    <2> QED
        BY <2>1, <2>2
<1>5. Beside(r)
    OBVIOUS
<1>6. OneGoesOn
    BY <1>1, <1>2, <1>3, <1>4, <1>5 DEF Active
<1> QED
    BY <1>6

\* No circle of readers waits for the mutex of a KEK cache and the RwLock of a
\* configuration (key_unwrapper.rs:60).
THEOREM NobodyStuck == Spec => []NoReaderIsStuck
BY Invariance, WaitingEnds, PTL

(***************************************************************************)
(* The refinement of KekCaches.                                            *)
(***************************************************************************)
LEMMA UnwrappedFits ==
    ASSUME NEW id, NEW m \in DoubleWrapped, UnwrapKey(id, m.master_key_id, m.wrapped_kek) # Failed
    PROVE  /\ CacheKey(m) \in KekIds
           /\ UnwrapKey(id, m.master_key_id, m.wrapped_kek) \in KeksOfId[CacheKey(m)]
<1>1. UnwrapKey(id, m.master_key_id, m.wrapped_kek) = m.wrapped_kek.key
    BY DEF UnwrapKey
<1>2. CacheKey(m) \in KekIds
    BY DEF KekIds
<1> QED
    BY <1>1, <1>2 DEF KeksOfId

LEMMA ReadImplements ==
    ASSUME IInv, NEW r \in Readers, Proceed(r)
    PROVE  Abstract!KCNext \/ UNCHANGED <<keks, holder, poisoned>>
<1> DEFINE n == cacheOf[Uses[r]]
           m == MaterialOf(r, reader[r].key)
<1>1. ASSUME NEW key \in Keys, Retrieve(r, key)
      PROVE  UNCHANGED <<keks, holder, poisoned>>
    BY <1>1 DEF Retrieve, cacheVars
<1>2. CASE UpdateConfig(r) \/ UseKek(r) \/ CallKms(r) \/ DekUnwrapped(r) \/ Reject(r)
    BY <1>2 DEF UpdateConfig, UseKek, CallKms, DekUnwrapped, Reject, cacheVars
<1>3. CASE MissKek(r)
    <2>1. Active(r) /\ m.double_wrapping /\ n # None
        BY <1>3 DEF MissKek, Active, IInv, ReadersOK
    <2>2. n \in Caches /\ CacheKey(m) \in KekIds
        BY <2>1, ReaderTypes, MaterialTypes DEF IInv
    <2>3. \A k \in Caches : holder[k] # r
        <3>1. holder[n] # r
            BY <1>3, SetupAssumption DEF MissKek
        <3> QED
            BY <3>1, OutsideMutex
    <2>4. Abstract!Miss(r, n)
        BY <1>3, <2>2, <2>3 DEF MissKek, Abstract!Miss
    <2> QED
        BY <2>2, <2>4 DEF Abstract!KCNext
<1>4. ASSUME reader[r].step = "kekkms"
      PROVE  /\ n \in Caches /\ holder[n] = r
             /\ m \in DoubleWrapped /\ keks[n][CacheKey(m)] = None
    <2>1. /\ n \in Caches /\ holder[n] = r
          /\ m.double_wrapping /\ keks[n][CacheKey(m)] = None
        BY <1>4, InMutex
    <2>2. reads[r] \in Files /\ reader[r].key \in DOMAIN Material[reads[r]]
        BY <1>4, ReaderTypes DEF IInv, ReadersOK, Active, KeysOf
    <2> QED
        BY <2>1, <2>2, KekIdsOfMaterial DEF MaterialOf
<1>5. CASE KekUnwrapped(r)
    <2> DEFINE name == CacheKey(m)
               kek == UnwrapKey(Conf(Uses[r]).kms_instance_id, m.master_key_id, m.wrapped_kek)
    <2>1. n \in Caches /\ holder[n] = r /\ m \in DoubleWrapped /\ keks[n][name] = None
        BY <1>4, <1>5 DEF KekUnwrapped
    <2>2. name \in KekIds /\ kek \in KeksOfId[name]
        BY <1>5, <2>1, UnwrappedFits DEF KekUnwrapped
    <2>3. /\ keks' = [keks EXCEPT ![n][name] = kek]
          /\ holder' = [holder EXCEPT ![n] = None] /\ poisoned' = poisoned
        BY <1>5 DEF KekUnwrapped
    <2>4. keks'[n][name] = kek
        BY <2>1, <2>2, <2>3 DEF IInv, TypeOK
    <2>5. Abstract!Store(r, n, name)
        BY <2>1, <2>2, <2>3, <2>4 DEF Abstract!Store, Abstract!Leave
    <2> QED
        BY <2>1, <2>2, <2>5 DEF Abstract!KCNext
<1>6. CASE KekRefused(r)
    BY <1>4, <1>6 DEF KekRefused, Abstract!GiveUp, Abstract!Leave, Abstract!KCNext
<1>7. CASE KmsFails(r) \/ KmsPanics(r)
    <2>1. CASE reader[r].step = "kms"
        BY <1>7, <2>1 DEF KmsFails, KmsPanics
    <2>2. CASE reader[r].step = "kekkms" /\ KmsFails(r)
        BY <1>4, <2>2 DEF KmsFails, Abstract!GiveUp, Abstract!Leave, Abstract!KCNext
    <2>3. CASE reader[r].step = "kekkms" /\ KmsPanics(r)
        BY <1>4, <2>3 DEF KmsPanics, Abstract!Panic, Abstract!Leave, Abstract!KCNext
    <2> QED
        BY <1>7, <2>1, <2>2, <2>3 DEF KmsFails, KmsPanics
<1> QED
    BY <1>1, <1>2, <1>3, <1>5, <1>6, <1>7 DEF Proceed

\* The readers use their KEK caches as KekCaches says: KEKs are stored once, by who is
\* inside the mutex, under the ids they were wrapped with, and nothing is after a
\* panic.
THEOREM Refinement == Spec => ImplementsKekCaches
<1>1. Init => Abstract!KCInit
    BY DEF Init, Abstract!KCInit
<1>2. IInv /\ [Next]_vars => [Abstract!KCNext]_(Abstract!kcVars)
    <2> SUFFICES ASSUME IInv, [Next]_vars
                 PROVE  Abstract!KCNext \/ UNCHANGED Abstract!kcVars
        OBVIOUS
    <2>1. ASSUME \/ UNCHANGED vars
                 \/ \E u \in Unwrappers, a \in Configs : NewUnwrapper(u, a)
                 \/ \E tok \in Tokens : Expire(tok)
                 \/ \E a \in Configs, tok \in Tokens : Refresh(a, tok)
          PROVE  UNCHANGED <<keks, holder, poisoned>>
        BY <2>1 DEF vars, cacheVars, NewUnwrapper, Expire, Refresh
    <2>2. ASSUME NEW r \in Readers, Proceed(r)
          PROVE  Abstract!KCNext \/ UNCHANGED <<keks, holder, poisoned>>
        BY <2>2, ReadImplements
    <2> QED
        BY <2>1, <2>2 DEF Next, Abstract!kcVars
<1> QED
    BY <1>1, <1>2, Invariance, PTL DEF Spec, ImplementsKekCaches, Abstract!KCSpec
===============================================================================
