------------------------ MODULE KeyUnwrapperReadProofs ------------------------
(* Files are read: theorems about KeyUnwrapper that rest on what KeyWrapper puts in
   a file (FilesAssumption), and on the invariant of KeyUnwrapperProofs. *)
EXTENDS KeyUnwrapperProofs

(***************************************************************************)
(* The inductive invariant, in three parts.                                *)
(***************************************************************************)
\* A config that no unwrapper was made with is as it was built, and so are those
\* that the application keeps.
AsBuilt ==
    \A a \in Configs :
        (a \in Kept \/ \A v \in Unwrappers : arc[v] = None \/ source[v] # a) => heap[a] = Build(a)

\* The config of an unwrapper has what it was made with, and an id otherwise from
\* the footer of some reader of its own.
Completed(u) ==
    /\ GivenId(u) # Unset => Conf(u).kms_instance_id = GivenId(u)
    /\ GivenUrl(u) # Unset => Conf(u).kms_instance_url = GivenUrl(u)
    /\ GivenId(u) = Unset /\ Conf(u).kms_instance_id # Unset =>
          \E q \in Readers : Uses[q] = u /\ Conf(u).kms_instance_id = FooterPlace(q).kms_instance_id

SourcesOK ==
    /\ AsBuilt
    /\ \A u \in Unwrappers : arc[u] # None => Completed(u)
    /\ ConfigIsOneFooters

\* A reader past its footer's update has a complete config.
Late(r) == reader[r].step \in {"unwrap", "kms", "kekkms"} \/ got[r][Footer] # None

LateOK ==
    \A r \in Readers :
        /\ reader[r].step # "idle" \/ got[r][Footer] # None => arc[Uses[r]] # None
        /\ Late(r) => IsComplete(Conf(Uses[r]))

\* A KEK is cached under its own id.
KeksOK ==
    \A n \in Caches : \A m \in DoubleWrapped :
        keks[n][CacheKey(m)] \in {None, m.wrapped_kek.key}

RInv == SourcesOK /\ LateOK /\ KeksOK /\ ReadableFilesAreRead

(***************************************************************************)
(* What steps do to configurations.                                        *)
(***************************************************************************)
\* A copy, or a config no one else has, takes the new contents; other configs stay.
LEMMA MakeMutGives ==
    ASSUME IInv, NEW u \in Unwrappers, arc[u] # None, NEW new \in ConnectionConfig,
           MakeMut(u, new)
    PROVE  /\ Conf(u)' = new /\ source' = source
           /\ \A v \in Unwrappers : arc[v] # None => arc'[v] # None
           /\ \A v \in Unwrappers \ {u} : arc[v] # None => Conf(v)' = Conf(v)
           /\ \A a \in Configs : heap'[a] = heap[a] \/ (source[u] = a /\ a \notin Kept)
<1> DEFINE b == IF Shared(u) THEN u ELSE arc[u]
<1> USE AddressTypes DEF IInv, TypeOK, ConnectionTypeOK, ConfigsOK
<1>1. /\ arc' = [arc EXCEPT ![u] = b] /\ heap' = [heap EXCEPT ![b] = new]
      /\ source' = source /\ b \in Addresses
    BY DEF MakeMut
<1>2. \A v \in Unwrappers \ {u} : arc[v] # None => arc[v] # b
    BY DEF Shared
<1>3. b \notin Kept /\ (b \in Configs => source[u] = b)
    BY DEF Shared
<1>4. arc'[u] = b /\ heap'[b] = new /\ b # None
    BY <1>1
<1>5. \A v \in Unwrappers \ {u} : arc'[v] = arc[v] /\ (arc[v] # None => heap'[arc[v]] = heap[arc[v]])
    BY <1>1, <1>2
<1>6. \A a \in Configs : heap'[a] = heap[a] \/ (source[u] = a /\ a \notin Kept)
    BY <1>1, <1>3
<1> QED
    BY <1>1, <1>4, <1>5, <1>6 DEF Conf

\* The update completes the config from the reader's own footer.
LEMMA UpdateConfigGives ==
    ASSUME IInv, NEW r \in Readers, UpdateConfig(r)
    PROVE  LET u == Uses[r]
               new == Updated(Conf(u), FooterPlace(r))
           IN  /\ u \in Unwrappers /\ arc[u] # None
               /\ Conf(u) \in ConnectionConfig
               /\ Conf(u)' = IF IsComplete(Conf(u)) \/ new.kms_instance_id = Unset
                             THEN Conf(u) ELSE new
               /\ source' = source /\ reads' = reads /\ got' = got /\ keks' = keks
               /\ \A v \in Unwrappers : arc[v] # None => arc'[v] # None
               /\ \A v \in Unwrappers \ {u} : arc[v] # None => Conf(v)' = Conf(v)
               /\ \A a \in Configs : heap'[a] = heap[a] \/ (source[u] = a /\ a \notin Kept)
               /\ reader[r].step = "update"
               /\ reader' = [reader EXCEPT ![r].step =
                                IF IsComplete(new) THEN "unwrap" ELSE "failed"]
<1> DEFINE u == Uses[r]
           c == Conf(u)
           new == Updated(c, FooterPlace(r))
<1> USE DEF IInv
<1>1. reader[r].step = "update" /\ cacheOf[u] # None /\ u \in Unwrappers
    BY ReaderTypes DEF UpdateConfig, ReadersOK, Active
<1>2. /\ arc[u] # None /\ c \in ConnectionConfig /\ c.key_access_token = source[u]
    BY <1>1 DEF ConfigsOK, Conf
<1>3. MaterialOf(r, reader[r].key).place = FooterPlace(r)
    <2>1. /\ reads[r] \in Files /\ reader[r].key \in DOMAIN Material[reads[r]]
          /\ Material[reads[r]][reader[r].key].place.is_footer_key
        BY <1>1, ReaderTypes DEF ReadersOK, Active, KeysOf, MaterialOf
    <2>2. reader[r].key = Footer
        BY <2>1, FileFacts
    <2> QED
        BY <2>2 DEF MaterialOf, FooterPlace, FooterOf
<1>4. new \in ConnectionConfig
    BY <1>1, <1>2, <1>3, MaterialTypes, UpdatedType DEF ReadersOK, Active
<1>5. /\ IF IsComplete(c) THEN UNCHANGED configVars
         ELSE MakeMut(u, IF new.kms_instance_id = Unset THEN c ELSE new)
      /\ reader' = [reader EXCEPT ![r].step = IF IsComplete(new) THEN "unwrap" ELSE "failed"]
      /\ reads' = reads /\ got' = got /\ keks' = keks
    BY <1>3 DEF UpdateConfig, MoveTo, cacheVars
<1>6. CASE IsComplete(c)
    BY <1>1, <1>2, <1>5, <1>6 DEF configVars, Conf
<1>7. CASE ~IsComplete(c)
    <2>1. (IF new.kms_instance_id = Unset THEN c ELSE new) \in ConnectionConfig
        BY <1>2, <1>4
    <2>2. MakeMut(u, IF new.kms_instance_id = Unset THEN c ELSE new)
        BY <1>5, <1>7
    <2> HIDE DEF c, new
    <2> QED
        BY <1>1, <1>2, <1>5, <1>7, <2>1, <2>2, MakeMutGives DEF c, new
<1> QED
    BY <1>6, <1>7

\* What a step may do, seen from configurations and from one reader.
LEMMA KindsOfSteps ==
    ASSUME IInv, [Next]_vars
    PROVE  /\ reads' = reads
           /\ \/ \E u \in Unwrappers, a \in Configs : NewUnwrapper(u, a)
              \/ \E r \in Readers : UpdateConfig(r)
              \/ UNCHANGED <<arc, heap, source>>
           /\ keks' = keks \/ \E r \in Readers : KekUnwrapped(r)
           /\ \A q \in Readers :
                \/ reader'[q] = reader[q] /\ got'[q] = got[q]
                \/ \E key \in Keys : Retrieve(q, key)
                \/ UpdateConfig(q)
                \/ /\ reader[q].step \in {"unwrap", "kms", "kekkms"}
                   /\ UNCHANGED <<arc, heap, source>>
                   /\ reader'[q].step = "failed" =>
                         UseKek(q) \/ DekUnwrapped(q) \/ KekUnwrapped(q) \/ KekRefused(q)
<1> USE DEF IInv, TypeOK
<1>1. ASSUME NEW r \in Readers, Proceed(r), ~UpdateConfig(r)
      PROVE  /\ reads' = reads /\ UNCHANGED <<arc, heap, source>>
             /\ keks' = keks \/ KekUnwrapped(r)
             /\ \A q \in Readers \ {r} : reader'[q] = reader[q] /\ got'[q] = got[q]
             /\ \/ \E key \in Keys : Retrieve(r, key)
                \/ reader[r].step \in {"unwrap", "kms", "kekkms"}
    BY <1>1 DEF Proceed, Retrieve, UseKek, MissKek, CallKms, DekUnwrapped, KekUnwrapped, KekRefused,
                KmsFails, KmsPanics, Reject, Answer, Stop, MoveTo, configVars, cacheVars
<1>2. ASSUME NEW r \in Readers, MissKek(r) \/ CallKms(r) \/ KmsFails(r) \/ KmsPanics(r) \/ Reject(r)
      PROVE  reader'[r].step # "failed"
    BY <1>2 DEF MissKek, CallKms, KmsFails, KmsPanics, Reject, Stop, MoveTo, Reader
<1>3. ASSUME NEW r \in Readers, UpdateConfig(r)
      PROVE  /\ reads' = reads /\ keks' = keks
             /\ \A q \in Readers \ {r} : reader'[q] = reader[q] /\ got'[q] = got[q]
    BY <1>3, UpdateConfigGives
<1>4. ASSUME NEW u \in Unwrappers, NEW a \in Configs, NewUnwrapper(u, a)
      PROVE  reads' = reads /\ keks' = keks /\ reader' = reader /\ got' = got
    BY <1>4 DEF NewUnwrapper, cacheVars
<1>5. ASSUME \/ \E tok \in Tokens : Expire(tok)
             \/ \E a \in Configs, tok \in Tokens : Refresh(a, tok)
             \/ UNCHANGED vars
      PROVE  /\ reads' = reads /\ keks' = keks /\ reader' = reader /\ got' = got
             /\ UNCHANGED <<arc, heap, source>>
    BY <1>5 DEF Expire, Refresh, RefreshKeyAccessToken, vars, configVars, cacheVars
<1> QED
    BY <1>1, <1>2, <1>3, <1>4, <1>5 DEF Next, Proceed

\* An unwrapper keeps its source, and complete configs stay.
LEMMA Settled ==
    ASSUME IInv, [Next]_vars
    PROVE  \A v \in Unwrappers : arc[v] # None =>
              /\ arc'[v] # None /\ source'[v] = source[v]
              /\ IsComplete(Conf(v)) => Conf(v)' = Conf(v)
<1>1. ASSUME NEW u \in Unwrappers, NEW a \in Configs, NewUnwrapper(u, a)
      PROVE  \A v \in Unwrappers : arc[v] # None => arc'[v] # None /\ source'[v] = source[v]
    BY <1>1 DEF NewUnwrapper, PassOn, IInv, TypeOK, ConnectionTypeOK
<1>2. ASSUME NEW r \in Readers, UpdateConfig(r)
      PROVE  \A v \in Unwrappers : arc[v] # None => arc'[v] # None /\ source'[v] = source[v]
    BY <1>2, UpdateConfigGives
<1> QED
    BY <1>1, <1>2, KindsOfSteps, NextInv

(***************************************************************************)
(* The parts of the invariant, one by one.                                 *)
(***************************************************************************)
LEMMA InitRInv == Init => RInv
<1> SUFFICES ASSUME Init PROVE RInv
    OBVIOUS
<1>1. SourcesOK
    BY AddressTypes DEF Init, ConnectionInit, SourcesOK, AsBuilt, ConfigIsOneFooters
<1>2. LateOK /\ ReadableFilesAreRead
    BY SetupAssumption DEF Init, LateOK, Late, ReadableFilesAreRead
<1>3. KeksOK
    BY DEF Init, KeksOK, KekIds
<1> QED
    BY <1>1, <1>2, <1>3 DEF RInv

LEMMA SourcesInv ==
    ASSUME IInv, SourcesOK, [Next]_vars
    PROVE  SourcesOK'
<1> USE DEF IInv, SourcesOK
<1>1. reads' = reads
    BY KindsOfSteps
<1>2. CASE UNCHANGED <<arc, heap, source>>
    BY <1>1, <1>2 DEF AsBuilt, Completed, ConfigIsOneFooters, Conf, GivenId, GivenUrl,
                      FooterPlace, WholeFooters
<1>3. ASSUME NEW u \in Unwrappers, NEW a \in Configs, NewUnwrapper(u, a)
      PROVE  SourcesOK'
    <2>1. /\ arc[u] = None /\ arc' = [arc EXCEPT ![u] = a] /\ source' = [source EXCEPT ![u] = a]
          /\ heap' = heap /\ (a \in Kept \/ \A v \in Unwrappers : source[v] # a) /\ a # None
        BY <1>3, AddressTypes DEF NewUnwrapper, PassOn, Addresses
    <2>2. heap[a] = Build(a)
        BY <2>1 DEF AsBuilt
    <2>3. /\ arc'[u] = a /\ source'[u] = a
          /\ \A v \in Unwrappers \ {u} : arc'[v] = arc[v] /\ source'[v] = source[v]
        BY <2>1 DEF TypeOK, ConnectionTypeOK
    <2>4. AsBuilt'
        BY <2>1, <2>3 DEF AsBuilt, Build
    <2>5. Conf(u)' = Build(a) /\ GivenId(u)' = Build(a).kms_instance_id
          /\ GivenUrl(u)' = Build(a).kms_instance_url /\ Build(source[u])' = Build(a)
        BY <2>1, <2>2, <2>3 DEF Conf, GivenId, GivenUrl, Build
    <2>6. \A v \in Unwrappers \ {u} : Conf(v)' = Conf(v) /\ GivenId(v)' = GivenId(v)
              /\ GivenUrl(v)' = GivenUrl(v) /\ Build(source[v])' = Build(source[v])
        BY <2>1, <2>3 DEF Conf, GivenId, GivenUrl, Build
    <2>7. \A v \in Unwrappers : arc'[v] # None => Completed(v)'
        BY <1>1, <2>3, <2>5, <2>6 DEF Completed, FooterPlace
    <2>8. ConfigIsOneFooters'
        BY <1>1, <2>3, <2>5, <2>6 DEF ConfigIsOneFooters, WholeFooters, FooterPlace
    <2> QED
        BY <2>4, <2>7, <2>8
<1>4. ASSUME NEW r \in Readers, UpdateConfig(r)
      PROVE  SourcesOK'
    <2> DEFINE u == Uses[r]
               c == Conf(u)
               place == FooterPlace(r)
               new == Updated(c, place)
    <2>1. /\ u \in Unwrappers /\ arc[u] # None /\ source' = source
          /\ Conf(u)' = IF IsComplete(c) \/ new.kms_instance_id = Unset THEN c ELSE new
          /\ \A v \in Unwrappers \ {u} : arc[v] # None => Conf(v)' = Conf(v)
          /\ \A a \in Configs : heap'[a] = heap[a] \/ (source[u] = a /\ a \notin Kept)
          /\ \A v \in Unwrappers : arc[v] # None => arc'[v] # None
        BY <1>4, UpdateConfigGives
    <2>2. \A v \in Unwrappers : arc'[v] = None <=> arc[v] = None
        BY <1>4, <2>1, NextInv, UpdateConfigInv DEF ConfigsOK, UpdateConfig
    <2>3. AsBuilt'
        BY <2>1, <2>2 DEF AsBuilt, Build
    <2>4. /\ GivenId(u)' = GivenId(u) /\ GivenUrl(u)' = GivenUrl(u)
          /\ \A v \in Unwrappers : GivenId(v)' = GivenId(v) /\ GivenUrl(v)' = GivenUrl(v)
                                      /\ Build(source[v])' = Build(source[v])
        BY <2>1 DEF GivenId, GivenUrl, Build
    <2>5. /\ new.kms_instance_id = GivenOr(c.kms_instance_id, place.kms_instance_id)
          /\ new.kms_instance_url = GivenOr(c.kms_instance_url, place.kms_instance_url)
        BY DEF Updated
    <2> HIDE DEF new, place, c, u
    <2>6. Completed(u)'
        BY <1>1, <2>1, <2>4, <2>5 DEF Completed, FooterPlace, GivenOr, u, c, place
    <2>7. \A v \in Unwrappers : arc'[v] # None => Completed(v)'
        BY <1>1, <2>1, <2>2, <2>4, <2>6 DEF Completed, FooterPlace
    <2> DEFINE From(v, conf, q) ==
                 /\ Uses[q] = v
                 /\ conf.kms_instance_id = GivenOr(GivenId(v), FooterPlace(q).kms_instance_id)
                 /\ conf.kms_instance_url = GivenOr(GivenUrl(v), FooterPlace(q).kms_instance_url)
               OneFooters(v, conf) == conf = Build(source[v]) \/ \E q \in Readers : From(v, conf, q)
    <2>8. WholeFooters(u) => OneFooters(u, Conf(u)')
        <3>1. CASE c = Build(source[u])
            <4>1. c.kms_instance_id = GivenId(u) /\ c.kms_instance_url = GivenUrl(u)
                BY <3>1 DEF Build, GivenId, GivenUrl
            <4> QED
                BY <2>1, <2>5, <3>1, <4>1 DEF u, place
        <3>2. ASSUME WholeFooters(u), NEW q \in Readers, From(u, c, q)
              PROVE  Conf(u)' = c
            BY <2>1, <3>2 DEF WholeFooters, GivenOr, IsComplete
        <3> QED
            BY <2>1, <3>1, <3>2 DEF ConfigIsOneFooters, c
    <2>9. ConfigIsOneFooters'
        <3> SUFFICES ASSUME NEW v \in Unwrappers, arc'[v] # None, WholeFooters(v)'
                     PROVE  OneFooters(v, Conf(v)')
            BY <1>1, <2>1, <2>4 DEF ConfigIsOneFooters, FooterPlace
        <3>1. WholeFooters(v) /\ \A q \in Readers : FooterPlace(q)' = FooterPlace(q)
            BY <1>1 DEF WholeFooters, FooterPlace
        <3>2. CASE v = u
            BY <2>4, <2>8, <3>1, <3>2
        <3>3. CASE v # u
            BY <2>1, <2>2, <2>4, <3>1, <3>3 DEF ConfigIsOneFooters
        <3> QED
            BY <3>2, <3>3
    <2> QED
        BY <2>3, <2>7, <2>9
<1> QED
    BY <1>2, <1>3, <1>4, KindsOfSteps

LEMMA LateInv ==
    ASSUME IInv, LateOK, [Next]_vars
    PROVE  LateOK'
<1> USE DEF IInv
<1> SUFFICES ASSUME NEW q \in Readers
             PROVE  /\ reader'[q].step # "idle" \/ got'[q][Footer] # None => arc'[Uses[q]] # None
                    /\ Late(q)' => IsComplete(Conf(Uses[q]))'
    BY DEF LateOK
<1>1. Uses[q] \in Unwrappers /\ (arc[Uses[q]] = None <=> cacheOf[Uses[q]] = None)
    BY ReaderTypes DEF ConfigsOK
<1>2. arc[Uses[q]] # None /\ IsComplete(Conf(Uses[q])) =>
          arc'[Uses[q]] # None /\ IsComplete(Conf(Uses[q]))'
    BY <1>1, Settled DEF IsComplete
<1>3. CASE reader'[q] = reader[q] /\ got'[q] = got[q]
    BY <1>1, <1>2, <1>3, Settled DEF LateOK, Late
<1>4. ASSUME NEW key \in Keys, Retrieve(q, key)
      PROVE  /\ arc'[Uses[q]] # None
             /\ Late(q)' => IsComplete(Conf(Uses[q]))'
    <2>1. /\ cacheOf[Uses[q]] # None /\ key \in KeysOf(q) /\ got' = got /\ UNCHANGED configVars
          /\ key # Footer => got[q][Footer] # None
          /\ reader' = [reader EXCEPT ![q] =
                [step |-> IF MaterialOf(q, key).place.is_footer_key THEN "update" ELSE "unwrap",
                 key |-> key]]
        BY <1>4 DEF Retrieve
    <2>2. MaterialOf(q, key).place.is_footer_key <=> key = Footer
        BY <2>1, ReaderTypes, FileFacts DEF MaterialOf, KeysOf
    <2>3. Late(q)' => got[q][Footer] # None
        BY <2>1, <2>2 DEF Late, TypeOK
    <2> QED
        BY <1>1, <1>2, <2>1, <2>3 DEF LateOK, Late, configVars
<1>5. CASE UpdateConfig(q)
    <2> DEFINE c == Conf(Uses[q])
               new == Updated(c, FooterPlace(q))
    <2>1. /\ arc[Uses[q]] # None /\ got' = got /\ q \in DOMAIN reader /\ reader[q] \in Reader
          /\ reader' = [reader EXCEPT ![q].step = IF IsComplete(new) THEN "unwrap" ELSE "failed"]
          /\ Conf(Uses[q])' = IF IsComplete(c) \/ new.kms_instance_id = Unset THEN c ELSE new
          /\ arc'[Uses[q]] # None
        BY <1>1, <1>5, UpdateConfigGives DEF TypeOK
    <2>2. reader'[q].step = IF IsComplete(new) THEN "unwrap" ELSE "failed"
        BY <2>1 DEF Reader
    <2>3. IsComplete(new) => IsComplete(Conf(Uses[q]))'
        BY <2>1 DEF IsComplete
    <2>4. CASE got[q][Footer] # None
        BY <1>2, <2>1, <2>4 DEF LateOK, Late
    <2>5. CASE got[q][Footer] = None
        BY <2>1, <2>2, <2>3, <2>5 DEF Late
    <2> QED
        BY <2>1, <2>4, <2>5
<1>6. CASE reader[q].step \in {"unwrap", "kms", "kekkms"}
    BY <1>2, <1>6 DEF LateOK, Late
<1> QED
    BY <1>3, <1>4, <1>5, <1>6, KindsOfSteps

LEMMA KekIdsUnambiguous ==
    ASSUME NEW m \in DoubleWrapped, NEW n \in DoubleWrapped,
           m.key_encryption_key_id = n.key_encryption_key_id
    PROVE  m.wrapped_kek.key = n.wrapped_kek.key
<1>1. PICK f \in Files : \E k \in DOMAIN Material[f] : m = Material[f][k]
    BY DEF DoubleWrapped, Range
<1>2. PICK g \in Files : \E l \in DOMAIN Material[g] : n = Material[g][l]
    BY DEF DoubleWrapped, Range
<1>3. m.double_wrapping /\ n.double_wrapping
    BY DEF DoubleWrapped
<1> QED
    BY <1>1, <1>2, <1>3, FilesAssumption DEF WellWritten

LEMMA KeksInv ==
    ASSUME IInv, KeksOK, [Next]_vars
    PROVE  KeksOK'
<1>1. CASE keks' = keks
    BY <1>1 DEF KeksOK
<1>2. ASSUME NEW r \in Readers, KekUnwrapped(r)
      PROVE  KeksOK'
    <2> DEFINE cache == cacheOf[Uses[r]]
               m == MaterialOf(r, reader[r].key)
               kek == UnwrapKey(Conf(Uses[r]).kms_instance_id, m.master_key_id, m.wrapped_kek)
    <2>1. reader[r].step = "kekkms" /\ keks' = [keks EXCEPT ![cache][CacheKey(m)] = kek]
          /\ kek # Failed
        BY <1>2 DEF KekUnwrapped
    <2>2. cache \in Caches /\ m.double_wrapping /\ reads[r] \in Files
          /\ reader[r].key \in DOMAIN Material[reads[r]]
        BY <2>1, InMutex, ReaderTypes DEF IInv, ReadersOK, Active, KeysOf
    <2>3. m \in DoubleWrapped /\ kek = m.wrapped_kek.key
        BY <2>1, <2>2, KekIdsOfMaterial DEF MaterialOf, UnwrapKey
    <2>4. \A n \in DoubleWrapped : CacheKey(n) = CacheKey(m) => n.wrapped_kek.key = kek
        BY <2>3, KekIdsUnambiguous DEF CacheKey
    <2>5. \A n \in DoubleWrapped : CacheKey(n) \in KekIds
        BY DEF KekIds
    <2> HIDE DEF cache, m, kek
    <2>6. \A c \in Caches, i \in KekIds :
              keks'[c][i] = IF c = cache /\ i = CacheKey(m) THEN kek ELSE keks[c][i]
        BY <2>1, <2>2 DEF IInv, TypeOK
    <2> QED
        BY <2>4, <2>5, <2>6 DEF KeksOK
<1> QED
    BY <1>1, <1>2, KindsOfSteps

\* A KMS call is to the instance the file names, where the readers of the unwrapper
\* agree on it.
LEMMA RightInstance ==
    ASSUME IInv, RInv, NEW r \in Readers, reader[r].step \in {"kms", "kekkms"}, Agreed(Uses[r])
    PROVE  Instance(Conf(Uses[r]).kms_instance_id) = InstanceOf(reads[r])
<1> DEFINE u == Uses[r]
<1>1. u \in Unwrappers /\ arc[u] # None /\ IsComplete(Conf(u)) /\ Completed(u)
    BY ReaderTypes DEF IInv, RInv, LateOK, Late, SourcesOK
<1>2. CASE GivenId(u) # Unset
    BY <1>1, <1>2 DEF Completed, Agreed
<1>3. CASE GivenId(u) = Unset
    <2>1. PICK q \in Readers :
              Uses[q] = u /\ Conf(u).kms_instance_id = FooterPlace(q).kms_instance_id
        BY <1>1, <1>3 DEF Completed, IsComplete
    <2> QED
        BY <2>1 DEF Agreed, InstanceOf, FooterPlace
<1> QED
    BY <1>2, <1>3

LEMMA ReadInv ==
    ASSUME IInv, RInv, [Next]_vars
    PROVE  ReadableFilesAreRead'
<1> SUFFICES ASSUME NEW q \in Readers, reader'[q].step = "failed", (Agreed(Uses[q]) /\ Told(q))'
             PROVE  FALSE
    BY DEF ReadableFilesAreRead
<1> DEFINE u == Uses[q]
           m == MaterialOf(q, reader[q].key)
<1>1. arc[u] # None
    <2>1. CASE reader[q].step = "idle"
        <3>1. PICK key \in Keys : Retrieve(q, key)
            BY <2>1, KindsOfSteps, UpdateConfigGives
        <3> QED
            BY <3>1 DEF Retrieve, IInv, TypeOK
    <2> QED
        BY <2>1 DEF RInv, LateOK
<1>2. u \in Unwrappers /\ reads' = reads /\ source'[u] = source[u]
    BY <1>1, ReaderTypes, KindsOfSteps, Settled DEF IInv
<1>3. Agreed(u) /\ Told(q)
    BY <1>2 DEF Agreed, Told, GivenId, GivenUrl, FooterPlace
<1>4. Completed(u)
    BY <1>1, <1>2 DEF RInv, SourcesOK
<1>5. reader'[q] # reader[q]
    BY <1>3 DEF RInv, ReadableFilesAreRead
<1>6. ~\E key \in Keys : Retrieve(q, key)
    BY DEF Retrieve, IInv, TypeOK
<1>7. ~UpdateConfig(q)
    <2> DEFINE new == Updated(Conf(u), FooterPlace(q))
    <2>1. ASSUME UpdateConfig(q)
          PROVE  ~IsComplete(new)
        <3>1. reader' = [reader EXCEPT ![q].step = IF IsComplete(new) THEN "unwrap" ELSE "failed"]
              /\ q \in DOMAIN reader /\ reader[q] \in Reader
            BY <2>1, UpdateConfigGives DEF IInv, TypeOK
        <3> QED
            BY <3>1 DEF Reader
    <2>2. IsComplete(new)
        BY <1>3, <1>4 DEF Completed, Told, IsComplete, Updated, GivenOr
    <2> QED
        BY <2>1, <2>2
<1>8. /\ reader[q].step \in {"unwrap", "kms", "kekkms"} /\ reads[q] \in Files
      /\ reader[q].key \in DOMAIN Material[reads[q]]
      /\ UseKek(q) \/ DekUnwrapped(q) \/ KekUnwrapped(q) \/ KekRefused(q)
    BY <1>5, <1>6, <1>7, KindsOfSteps, ReaderTypes DEF IInv, ReadersOK, Active, KeysOf
<1>9. \A result : Answer(q, result) => result = Failed
    BY DEF Answer, Stop, IInv, TypeOK
<1>10. m.double_wrapping => m \in DoubleWrapped /\ Decrypted(m, m.wrapped_kek.key) # Failed
    <2> SUFFICES ASSUME m.double_wrapping PROVE m \in DoubleWrapped /\ Decrypted(m, m.wrapped_kek.key) # Failed
        OBVIOUS
    <2>1. m \in DoubleWrapped
        BY <1>8, KekIdsOfMaterial DEF MaterialOf
    <2> HIDE DEF m
    <2>2. /\ m.wrapped_dek.aad = m.key_encryption_key_id /\ m.wrapped_dek.under = m.wrapped_kek.key
          /\ m.wrapped_dek.dek # Failed
        BY <1>8, FileFacts DEF m, MaterialOf
    <2> QED
        BY <2>1, <2>2 DEF Decrypted, DecryptEncryptionKey
<1>11. reader[q].step \in {"kms", "kekkms"} =>
          LET wrapped == IF m.double_wrapping THEN m.wrapped_kek ELSE m.wrapped_dek
          IN  UnwrapKey(Conf(u).kms_instance_id, m.master_key_id, wrapped) = wrapped.key
              /\ wrapped.key # Failed
    BY <1>3, <1>8, RightInstance, FileFacts DEF MaterialOf, UnwrapKey
<1>12. ~UseKek(q)
    <2> SUFFICES ASSUME UseKek(q) PROVE FALSE
        OBVIOUS
    <2>1. keks[cacheOf[u]][CacheKey(m)] = m.wrapped_kek.key
        BY <1>8, <1>10, ReaderTypes DEF UseKek, RInv, KeksOK, IInv, ReadersOK, Active
    <2> QED
        BY <1>9, <1>10, <2>1 DEF UseKek
<1>13. ~DekUnwrapped(q)
    BY <1>9, <1>11 DEF DekUnwrapped, IInv, ReadersOK, Active
<1>14. ~KekUnwrapped(q)
    BY <1>9, <1>10, <1>11, InMutex DEF KekUnwrapped
<1>15. ~KekRefused(q)
    BY <1>11, InMutex DEF KekRefused
<1> QED
    BY <1>8, <1>12, <1>13, <1>14, <1>15

(***************************************************************************)
(* What holds of every behaviour.                                          *)
(***************************************************************************)
\* The whole of the invariant.
THEOREM ReadInvariance == Spec => [](IInv /\ RInv)
<1>1. IInv /\ RInv /\ [Next]_vars => IInv' /\ RInv'
    BY NextInv, SourcesInv, LateInv, KeksInv, ReadInv DEF RInv
<1> QED
    BY InitInv, InitRInv, <1>1, PTL DEF Spec

\* A reader that was told of the right instance is refused no key, whatever the others
\* do (retrieve_key, key_unwrapper.rs:119).
THEOREM FilesAreRead == Spec => []ReadableFilesAreRead
<1>1. IInv /\ RInv => ReadableFilesAreRead
    BY DEF RInv
<1> QED
    BY ReadInvariance, <1>1, PTL

\* Readers that complete one configuration between them do so from one footer
\* (update_kms_config_from_footer_metadata, key_unwrapper.rs:83).
THEOREM OneFooters == Spec => []ConfigIsOneFooters
<1>1. IInv /\ RInv => ConfigIsOneFooters
    BY DEF RInv, SourcesOK
<1> QED
    BY ReadInvariance, <1>1, PTL
===============================================================================
