--------------------------- MODULE KeyWrapperProofs ---------------------------
(* Theorems about KeyWrapper, for every number of writers, columns and master
   keys. *)
EXTENDS KeyWrapper, TLAPS

(***************************************************************************)
(* The inductive invariant.                                                *)
(***************************************************************************)
\* Inside the mutex of a KEK cache is the writer that has the KMS wrap a new KEK for
\* it, which the cache does not have.
MutexOK ==
    /\ \A w \in Writers : writer[w].step \in {"keys", "wrap"} => writer[w].cache # None
    /\ \A w \in Writers : writer[w].step = "wrap" =>
          /\ holder[writer[w].cache] = w
          /\ writer[w].key \in KeysOf(w)
          /\ keks[writer[w].cache][MasterOf(w, writer[w].key)] = None
    /\ \A n \in Caches, w \in Writers : holder[n] = w =>
          writer[w].step = "wrap" /\ writer[w].cache = n

\* A KEK was made by some writer for the master key it is cached under.
MadeFor(kek, master) ==
    \E v \in Writers : \E k \in KeysOf(v) : MasterOf(v, k) = master /\ kek = NewKek(v, k)

KeksOK ==
    \A n \in Caches, m \in Masters : keks[n][m] # None => MadeFor(keks[n][m], m)

\* A KEK that was made stays where it was put.
HistoryOK ==
    \A g \in generated :
        /\ g.cache \in Caches /\ g.master \in Masters /\ g.kek # None
        /\ keks[g.cache][g.master] = g.kek

\* The material of a key is wrapped by the KMS, or with a KEK of its master key.
MaterialOK(w, key, m) ==
    /\ key \in KeysOf(w)
    /\ \/ m = SingleWrapped(w, key)
       \/ \E v \in Writers : \E k \in KeysOf(v) :
             MasterOf(v, k) = MasterOf(w, key) /\ m = DoubleWrapped(w, key, NewKek(v, k))

FilesOK ==
    \A w \in Writers, key \in Keys : file[w][key] # None => MaterialOK(w, key, file[w][key])

\* A file that is done is complete.
DoneOK ==
    \A w \in Writers : writer[w].step = "done" => \A key \in KeysOf(w) : file[w][key] # None

IInv == TypeOK /\ MutexOK /\ KeksOK /\ HistoryOK /\ FilesOK /\ DoneOK

(***************************************************************************)
(* Lemmas about keys.                                                      *)
(***************************************************************************)
LEMMA KeyTypes ==
    ASSUME NEW w \in Writers, NEW key \in KeysOf(w)
    PROVE  key \in Keys /\ MasterOf(w, key) \in Masters /\ Id[w] \in Ids
BY PlanAssumption DEF KeysOf, Keys, MasterOf

LEMMA NewKekType ==
    ASSUME NEW w \in Writers, NEW key \in KeysOf(w)
    PROVE  NewKek(w, key) \in KeyEncryptionKey /\ NewKek(w, key) # None
<1>1. key \in Keys /\ MasterOf(w, key) \in Masters /\ Id[w] \in Ids
    BY KeyTypes
<1>2. NewKek(w, key) \in KeyEncryptionKey
    BY <1>1 DEF NewKek, KeyEncryptionKey
<1> QED
    BY <1>2, KeysAssumption

(***************************************************************************)
(* The invariant holds initially, and every action preserves it.           *)
(***************************************************************************)
LEMMA InitInv == Init => IInv
<1> SUFFICES ASSUME Init PROVE IInv
    OBVIOUS
<1> USE PlanAssumption DEF Init
<1>1. \A w \in Writers : writer[w] = [step |-> "begin", cache |-> None, key |-> None]
    OBVIOUS
<1>2. TypeOK
    BY <1>1 DEF TypeOK, Writer, Steps, Caches
<1>3. MutexOK
    BY <1>1 DEF MutexOK
<1>4. KeksOK /\ HistoryOK /\ FilesOK
    BY DEF KeksOK, HistoryOK, FilesOK
<1>5. DoneOK
    BY <1>1 DEF DoneOK
<1> QED
    BY <1>2, <1>3, <1>4, <1>5 DEF IInv

\* A writer takes its KEK cache.
LEMMA BeginInv ==
    ASSUME IInv, NEW w \in Writers, Begin(w)
    PROVE  IInv'
<1> DEFINE tok == token[Cell[w]]
           cache == IF live[tok] # None THEN live[tok] ELSE created + 1
           next == [step |-> "keys", cache |-> cache, key |-> None]
<1> USE DEF IInv, TypeOK
<1>1. /\ writer[w].step = "begin" /\ cache \in Caches
      /\ live' = [live EXCEPT ![tok] = cache]
      /\ created' = IF live[tok] # None THEN created ELSE cache
      /\ writer' = [writer EXCEPT ![w] = next]
      /\ UNCHANGED <<token, keks, holder, poisoned, generated, file>>
    BY DEF Begin, kekVars
<1>2. tok \in Tokens /\ next \in Writer /\ cache # None
    <2>1. tok \in Tokens
        BY PlanAssumption
    <2>2. cache # None
        BY <1>1, PlanAssumption DEF Caches
    <2> HIDE DEF cache
    <2>3. next \in Writer
        BY <1>1 DEF Writer, Steps
    <2> QED
        BY <2>1, <2>2, <2>3
<1> HIDE DEF next
<1>3. live' \in [Tokens -> Caches \cup {None}] /\ created' \in 0 .. MaxCaches
      /\ writer' \in [Writers -> Writer]
    BY <1>1, <1>2, PlanAssumption DEF Caches
<1>4. TypeOK'
    BY <1>1, <1>3
<1>5. writer'[w] = next /\ \A v \in Writers \ {w} : writer'[v] = writer[v]
    BY <1>1
<1>6. MutexOK'
    BY <1>1, <1>2, <1>5 DEF MutexOK, next
<1>7. KeksOK' /\ HistoryOK' /\ FilesOK'
    BY <1>1 DEF KeksOK, HistoryOK, FilesOK
<1>8. DoneOK'
    BY <1>1, <1>5 DEF DoneOK, next
<1> QED
    BY <1>4, <1>6, <1>7, <1>8

\* A data key is wrapped while the writer is outside of the mutex.
LEMMA WrapInv ==
    ASSUME IInv, NEW w \in Writers, NEW key \in Keys, WrapWithKms(w, key) \/ UseKek(w, key)
    PROVE  IInv'
<1> USE DEF IInv, TypeOK
<1>1. PICK m : /\ file' = [file EXCEPT ![w][key] = m]
               /\ MaterialOK(w, key, m)
    <2>1. CASE WrapWithKms(w, key)
        BY <2>1 DEF WrapWithKms, IsNext, MaterialOK
    <2>2. CASE UseKek(w, key)
        <3> DEFINE kek == keks[writer[w].cache][MasterOf(w, key)]
        <3>1. /\ writer[w].step = "keys" /\ key \in KeysOf(w) /\ kek # None
              /\ file' = [file EXCEPT ![w][key] = DoubleWrapped(w, key, kek)]
            BY <2>2 DEF UseKek, IsNext
        <3>2. writer[w].cache \in Caches /\ MasterOf(w, key) \in Masters
            BY <3>1, KeyTypes DEF MutexOK, Writer
        <3>3. MadeFor(kek, MasterOf(w, key))
            BY <3>1, <3>2 DEF KeksOK
        <3> QED
            BY <3>1, <3>3 DEF MaterialOK, MadeFor
    <2> QED
        BY <2>1, <2>2
<1>2. key \in KeysOf(w) /\ UNCHANGED <<token, live, created, keks, holder, poisoned, generated, writer>>
    BY DEF WrapWithKms, UseKek, IsNext, kekVars
<1>3. writer[w].step = "keys"
    BY DEF WrapWithKms, UseKek
<1>4. /\ DOMAIN file' = Writers /\ \A v \in Writers : DOMAIN file'[v] = Keys
      /\ file'[w][key] = m
      /\ \A v \in Writers, k \in Keys : v # w \/ k # key => file'[v][k] = file[v][k]
    BY <1>1
<1>5. FilesOK'
    BY <1>1, <1>4 DEF FilesOK
<1>6. TypeOK'
    BY <1>2, <1>4
<1>7. MutexOK' /\ KeksOK' /\ HistoryOK'
    BY <1>2 DEF MutexOK, KeksOK, HistoryOK
<1>8. DoneOK'
    BY <1>2, <1>3, <1>4, KeyTypes DEF DoneOK
<1> QED
    BY <1>5, <1>6, <1>7, <1>8

\* A writer that misses a KEK enters the mutex.
LEMMA GenerateKekInv ==
    ASSUME IInv, NEW w \in Writers, NEW key \in Keys, GenerateKek(w, key)
    PROVE  IInv'
<1> DEFINE cache == writer[w].cache
           next == [writer[w] EXCEPT !.step = "wrap", !.key = key]
<1> USE DEF IInv, TypeOK
<1>1. /\ writer[w].step = "keys" /\ key \in KeysOf(w)
      /\ holder[cache] = None /\ keks[cache][MasterOf(w, key)] = None
      /\ holder' = [holder EXCEPT ![cache] = w]
      /\ writer' = [writer EXCEPT ![w].step = "wrap", ![w].key = key]
      /\ UNCHANGED <<token, live, created, keks, poisoned, generated, file>>
    BY DEF GenerateKek, IsNext
<1>2. cache \in Caches /\ writer[w] \in Writer
    BY <1>1 DEF MutexOK, Writer
<1>3. /\ writer'[w] \in Writer /\ writer'[w].step = "wrap" /\ writer'[w].cache = cache
      /\ writer'[w].key = key
      /\ \A v \in Writers \ {w} : writer'[v] = writer[v]
    BY <1>1, <1>2 DEF Writer, Steps
<1>4. writer' \in [Writers -> Writer]
    BY <1>1, <1>3
<1>5. TypeOK'
    BY <1>1, <1>2, <1>4
<1> HIDE DEF cache
<1>6. /\ holder'[cache] = w /\ cache # None
      /\ \A n \in Caches : n # cache => holder'[n] = holder[n]
    BY <1>1, <1>2, PlanAssumption DEF Caches
<1>7. MutexOK'
    <2>1. \A v \in Writers \ {w} : writer[v].step = "wrap" => writer[v].cache # cache
        BY <1>1, PlanAssumption DEF MutexOK
    <2>2. \A v \in Writers : writer[v].step = "wrap" => writer[v].cache \in Caches
        BY DEF MutexOK, Writer
    <2> QED
        BY <1>1, <1>3, <1>6, <2>1, <2>2 DEF MutexOK
<1>8. KeksOK' /\ HistoryOK' /\ FilesOK'
    BY <1>1 DEF KeksOK, HistoryOK, FilesOK
<1>9. DoneOK'
    BY <1>1, <1>3 DEF DoneOK
<1> QED
    BY <1>5, <1>7, <1>8, <1>9

\* Leaving the mutex changes it for no one else.
LEMMA LeaveMutex ==
    ASSUME IInv, NEW w \in Writers, writer[w].step = "wrap",
           holder' = [holder EXCEPT ![writer[w].cache] = None]
    PROVE  /\ holder' \in [Caches -> Writers \cup {None}]
           /\ \A n \in Caches, v \in Writers : holder'[n] = v <=> v # w /\ holder[n] = v
BY PlanAssumption DEF IInv, TypeOK, MutexOK, Writer

\* The KMS has wrapped the KEK, and the mutex is left.
LEMMA KekWrappedInv ==
    ASSUME IInv, NEW w \in Writers, KekWrapped(w)
    PROVE  IInv'
<1> DEFINE cache == writer[w].cache
           key == writer[w].key
           kek == NewKek(w, key)
           master == MasterOf(w, key)
           entry == [cache |-> cache, master |-> master, kek |-> kek]
<1> USE DEF IInv, TypeOK
<1>1. /\ writer[w].step = "wrap"
      /\ keks' = [keks EXCEPT ![cache][master] = kek]
      /\ generated' = generated \cup {entry}
      /\ file' = [file EXCEPT ![w][key] = DoubleWrapped(w, key, kek)]
      /\ holder' = [holder EXCEPT ![cache] = None]
      /\ writer' = [writer EXCEPT ![w].step = "keys", ![w].key = None]
      /\ UNCHANGED <<token, live, created, poisoned>>
    BY DEF KekWrapped
<1>2. /\ cache \in Caches /\ cache # None /\ holder[cache] = w /\ writer[w] \in Writer
      /\ key \in KeysOf(w) /\ keks[cache][master] = None
    BY <1>1 DEF MutexOK, Writer
<1>3. key \in Keys /\ master \in Masters /\ kek \in KeyEncryptionKey /\ kek # None
    BY <1>2, KeyTypes, NewKekType
<1>4. MadeFor(kek, master)
    BY <1>2 DEF MadeFor
<1>5. /\ writer'[w] \in Writer /\ writer'[w].step = "keys" /\ writer'[w].cache = cache
      /\ \A v \in Writers \ {w} : writer'[v] = writer[v]
    BY <1>1, <1>2 DEF Writer, Steps
<1>6. writer' \in [Writers -> Writer]
    BY <1>1, <1>5
<1> HIDE DEF cache, key, kek, master
<1>7. /\ keks' \in [Caches -> [Masters -> KeyEncryptionKey \cup {None}]]
      /\ \A n \in Caches, m \in Masters :
            keks'[n][m] = IF n = cache /\ m = master THEN kek ELSE keks[n][m]
    BY <1>1, <1>2, <1>3
<1>8. /\ DOMAIN file' = Writers /\ \A v \in Writers : DOMAIN file'[v] = Keys
      /\ file'[w][key] = DoubleWrapped(w, key, kek)
      /\ \A v \in Writers, k \in Keys : v # w \/ k # key => file'[v][k] = file[v][k]
    BY <1>1, <1>3
<1>9. /\ holder' \in [Caches -> Writers \cup {None}]
      /\ \A n \in Caches, v \in Writers : holder'[n] = v <=> v # w /\ holder[n] = v
    BY <1>1, LeaveMutex DEF cache
<1>10. TypeOK'
    BY <1>1, <1>6, <1>7, <1>8, <1>9
<1>11. MutexOK'
    <2>1. \A v \in Writers : writer'[v].step = "wrap" =>
              v # w /\ writer'[v] = writer[v] /\ writer[v].cache \in Caches /\ writer[v].cache # cache
        BY <1>2, <1>5 DEF MutexOK, Writer
    <2>2. \A v \in Writers : writer[v].step = "wrap" => MasterOf(v, writer[v].key) \in Masters
        BY KeyTypes DEF MutexOK
    <2>3. \A v \in Writers : writer'[v].step = "wrap" =>
              keks'[writer[v].cache][MasterOf(v, writer[v].key)] = None
        BY <1>7, <2>1, <2>2 DEF MutexOK
    <2>4. \A v \in Writers : writer'[v].step = "wrap" => holder'[writer[v].cache] = v
        BY <1>9, <2>1 DEF MutexOK
    <2>5. \A n \in Caches, v \in Writers : holder'[n] = v => writer'[v] = writer[v] /\ holder[n] = v
        BY <1>5, <1>9
    <2>6. \A v \in Writers : writer'[v].step \in {"keys", "wrap"} => writer'[v].cache # None
        BY <1>2, <1>5 DEF MutexOK
    <2> QED
        BY <2>1, <2>3, <2>4, <2>5, <2>6 DEF MutexOK
<1>12. KeksOK'
    BY <1>4, <1>7 DEF KeksOK
<1>13. HistoryOK'
    BY <1>1, <1>2, <1>3, <1>7 DEF HistoryOK
<1>14. FilesOK'
    <2>1. MaterialOK(w, key, DoubleWrapped(w, key, kek))
        BY <1>2 DEF MaterialOK, kek
    <2> QED
        BY <1>8, <2>1 DEF FilesOK
<1>15. DoneOK'
    BY <1>5, <1>8, KeyTypes DEF DoneOK
<1> QED
    BY <1>10, <1>11, <1>12, <1>13, <1>14, <1>15

\* A call ends, in the mutex or outside of it.
LEMMA EndInv ==
    ASSUME IInv, NEW w \in Writers, KmsFails(w) \/ KmsPanics(w) \/ Reject(w) \/ Finish(w)
    PROVE  IInv'
<1> USE DEF IInv, TypeOK
<1>1. PICK step \in {"failed", "panicked", "done"} :
          /\ writer' = [writer EXCEPT ![w].step = step, ![w].key = None]
          /\ step = "done" => \A key \in KeysOf(w) : file[w][key] # None
    BY DEF KmsFails, KmsPanics, Reject, Finish, Stop
<1>2. /\ writer[w].step \in {"keys", "wrap"}
      /\ UNCHANGED <<token, live, created, keks, generated, file>>
    BY DEF KmsFails, KmsPanics, Reject, Finish, kekVars
<1>3. \/ writer[w].step = "keys" /\ holder' = holder
      \/ writer[w].step = "wrap" /\ holder' = [holder EXCEPT ![writer[w].cache] = None]
    BY DEF KmsFails, KmsPanics, Reject, Finish, kekVars
<1>4. writer[w].cache \in Caches /\ writer[w] \in Writer
    BY <1>2 DEF MutexOK, Writer
<1>5. poisoned' \subseteq Caches
    BY <1>4 DEF KmsFails, KmsPanics, Reject, Finish, kekVars
<1>6. /\ holder' \in [Caches -> Writers \cup {None}]
      /\ \A n \in Caches, v \in Writers : holder'[n] = v <=> v # w /\ holder[n] = v
    BY <1>3, LeaveMutex DEF MutexOK
<1>7. /\ writer'[w] \in Writer /\ writer'[w].step = step
      /\ \A v \in Writers \ {w} : writer'[v] = writer[v]
    BY <1>1, <1>4 DEF Writer, Steps
<1>8. TypeOK'
    BY <1>1, <1>2, <1>5, <1>6, <1>7
<1>9. MutexOK'
    <2>1. \A v \in Writers : writer'[v].step \in {"keys", "wrap"} => v # w /\ writer'[v] = writer[v]
        BY <1>7
    <2>2. \A v \in Writers : writer[v].step = "wrap" => writer[v].cache \in Caches
        BY DEF MutexOK, Writer
    <2>3. \A n \in Caches, v \in Writers : holder'[n] = v => writer'[v] = writer[v] /\ holder[n] = v
        BY <1>6, <1>7
    <2> QED
        BY <1>2, <1>6, <2>1, <2>2, <2>3 DEF MutexOK
<1>10. KeksOK' /\ HistoryOK' /\ FilesOK'
    BY <1>2 DEF KeksOK, HistoryOK, FilesOK
<1>11. DoneOK'
    BY <1>1, <1>2, <1>7 DEF DoneOK
<1> QED
    BY <1>8, <1>9, <1>10, <1>11

LEMMA NextInv == IInv /\ [Next]_vars => IInv'
<1> SUFFICES ASSUME IInv, [Next]_vars PROVE IInv'
    OBVIOUS
<1>1. ASSUME NEW w \in Writers, Write(w)
      PROVE  IInv'
    BY <1>1, BeginInv, WrapInv, GenerateKekInv, KekWrappedInv, EndInv DEF Write
<1>2. ASSUME \/ \E cell \in Cells, tok \in Tokens : Refresh(cell, tok)
             \/ \E tok \in Tokens : Expire(tok)
             \/ UNCHANGED vars
      PROVE  IInv'
    <2>1. /\ UNCHANGED <<created, keks, holder, poisoned, generated, writer, file>>
          /\ token' \in [Cells -> Tokens] /\ live' \in [Tokens -> Caches \cup {None}]
        BY <1>2 DEF Refresh, Expire, vars, kekVars, IInv, TypeOK
    <2>2. TypeOK' /\ MutexOK'
        BY <2>1 DEF IInv, TypeOK, MutexOK
    <2>3. KeksOK' /\ HistoryOK' /\ FilesOK' /\ DoneOK'
        BY <2>1 DEF IInv, KeksOK, HistoryOK, FilesOK, DoneOK
    <2> QED
        BY <2>2, <2>3 DEF IInv
<1> QED
    BY <1>1, <1>2 DEF Next

(***************************************************************************)
(* What the invariant says of files.                                       *)
(***************************************************************************)
\* No two writers have different KMS instances.
SameInstance == \A v, w \in Writers : Instance(Id[v]) = Instance(Id[w])

\* The files that are done, as their readers meet them.
Done == {w \in Writers : writer[w].step = "done"}
FileOf(w) == [key \in KeysOf(w) |-> file[w][key]]
Written == {FileOf(w) : w \in Done}

LEMMA FooterNamesInstance ==
    ASSUME NEW id
    PROVE  Instance(OrDefault(id)) = Instance(id)
BY MarkersAssumption DEF Instance, OrDefault

\* The material of a key, field by field.
LEMMA MaterialFields ==
    ASSUME NEW w \in Writers, NEW key \in KeysOf(w), NEW m, MaterialOK(w, key, m)
    PROVE  /\ m.place = Place(w, key) /\ m.master_key_id = MasterOf(w, key)
           /\ \/ ~m.double_wrapping /\ m.wrapped_dek = WrapKey(Id[w], MasterOf(w, key), Dek(w, key))
              \/ \E v \in Writers : \E k \in KeysOf(v) :
                    /\ m.double_wrapping /\ m.key_encryption_key_id = KekId(v, k)
                    /\ MasterOf(v, k) = MasterOf(w, key)
                    /\ m.wrapped_kek = WrapKey(Id[v], MasterOf(w, key), Kek(v, k))
                    /\ m.wrapped_dek = EncryptEncryptionKey(Dek(w, key), KekId(v, k), Kek(v, k))
<1>1. CASE m = SingleWrapped(w, key)
    BY <1>1 DEF SingleWrapped, WithSingleWrappedKey
<1>2. ASSUME NEW v \in Writers, NEW k \in KeysOf(v), MasterOf(v, k) = MasterOf(w, key),
             m = DoubleWrapped(w, key, NewKek(v, k))
      PROVE  /\ m.place = Place(w, key) /\ m.master_key_id = MasterOf(w, key)
             /\ m.double_wrapping /\ m.key_encryption_key_id = KekId(v, k)
             /\ m.wrapped_kek = WrapKey(Id[v], MasterOf(w, key), Kek(v, k))
             /\ m.wrapped_dek = EncryptEncryptionKey(Dek(w, key), KekId(v, k), Kek(v, k))
    BY <1>2 DEF DoubleWrapped, WithDoubleWrappedKey, NewKek
<1> QED
    BY <1>1, <1>2 DEF MaterialOK

\* A KEK id names its KEK.
LEMMA KekIdsDiffer ==
    ASSUME NEW v, NEW k, NEW w, NEW l, KekId(v, k) = KekId(w, l)
    PROVE  v = w /\ k = l
BY DEF KekId

LEMMA UnambiguousLemma == IInv => KekIdsAreUnambiguous
<1> SUFFICES ASSUME IInv, NEW a \in Materials, NEW b \in Materials,
                    a.double_wrapping, b.double_wrapping,
                    a.key_encryption_key_id = b.key_encryption_key_id
             PROVE  a.wrapped_kek = b.wrapped_kek /\ a.master_key_id = b.master_key_id
    BY DEF KekIdsAreUnambiguous
<1>1. \A m \in Materials : m.double_wrapping =>
          \E v \in Writers : \E k \in KeysOf(v) :
              /\ m.key_encryption_key_id = KekId(v, k)
              /\ m.master_key_id = MasterOf(v, k)
              /\ m.wrapped_kek = WrapKey(Id[v], MasterOf(v, k), Kek(v, k))
    <2> SUFFICES ASSUME NEW w \in Writers, NEW key \in Keys, file[w][key] # None,
                        file[w][key].double_wrapping
                 PROVE  \E v \in Writers : \E k \in KeysOf(v) :
              /\ file[w][key].key_encryption_key_id = KekId(v, k)
              /\ file[w][key].master_key_id = MasterOf(v, k)
              /\ file[w][key].wrapped_kek = WrapKey(Id[v], MasterOf(v, k), Kek(v, k))
        BY DEF Materials
    <2>1. key \in KeysOf(w) /\ MaterialOK(w, key, file[w][key])
        BY DEF IInv, FilesOK, MaterialOK
    <2> QED
        BY <2>1, MaterialFields
<1>2. PICK v \in Writers : \E k \in KeysOf(v) :
              /\ a.key_encryption_key_id = KekId(v, k)
              /\ a.master_key_id = MasterOf(v, k)
              /\ a.wrapped_kek = WrapKey(Id[v], MasterOf(v, k), Kek(v, k))
    BY <1>1
<1>3. PICK w \in Writers : \E k \in KeysOf(w) :
              /\ b.key_encryption_key_id = KekId(w, k)
              /\ b.master_key_id = MasterOf(w, k)
              /\ b.wrapped_kek = WrapKey(Id[w], MasterOf(w, k), Kek(w, k))
    BY <1>1
<1>4. PICK k \in KeysOf(v) :
              /\ a.key_encryption_key_id = KekId(v, k)
              /\ a.master_key_id = MasterOf(v, k)
              /\ a.wrapped_kek = WrapKey(Id[v], MasterOf(v, k), Kek(v, k))
    BY <1>2
<1>5. PICK l \in KeysOf(w) :
              /\ b.key_encryption_key_id = KekId(w, l)
              /\ b.master_key_id = MasterOf(w, l)
              /\ b.wrapped_kek = WrapKey(Id[w], MasterOf(w, l), Kek(w, l))
    BY <1>3
<1>6. v = w /\ k = l
    <2>1. KekId(v, k) = KekId(w, l)
        BY <1>4, <1>5
    <2> QED
        BY <2>1, KekIdsDiffer
<1> QED
    BY <1>4, <1>5, <1>6

\* The files of writers for one KMS instance are as their readers assume.
LEMMA WrittenLemma ==
    ASSUME SameInstance, IInv
    PROVE  WellWritten(Written, Footer)
<1>1. ASSUME NEW w \in Done, NEW key \in KeysOf(w)
      PROVE  /\ w \in Writers /\ key \in Keys
             /\ MaterialOK(w, key, file[w][key]) /\ MaterialOK(w, Footer, file[w][Footer])
    BY KeyTypes DEF Done, IInv, DoneOK, FilesOK, KeysOf
<1>2. ASSUME NEW w \in Done, NEW key \in KeysOf(w)
      PROVE  LET m == file[w][key]
                 byKms == IF m.double_wrapping THEN m.wrapped_kek ELSE m.wrapped_dek
             IN  /\ m.place.is_footer_key <=> key = Footer
                 /\ byKms.by = Instance(file[w][Footer].place.kms_instance_id)
                 /\ byKms.master = m.master_key_id
                 /\ byKms.key \notin {None, Failed}
                 /\ m.double_wrapping =>
                       /\ m.wrapped_dek.aad = m.key_encryption_key_id
                       /\ m.wrapped_dek.under = m.wrapped_kek.key
                       /\ m.wrapped_dek.dek # Failed
    <2> DEFINE m == file[w][key]
    <2>1. w \in Writers /\ key \in Keys /\ MaterialOK(w, key, m) /\ MaterialOK(w, Footer, file[w][Footer])
        BY <1>1
    <2>2. m.place.is_footer_key <=> key = Footer
        <3>1. m.place = Place(w, key)
            BY <2>1, MaterialFields
        <3> QED
            BY <3>1 DEF Place, ForFooterKey, ForColumnKey
    <2>3. Instance(file[w][Footer].place.kms_instance_id) = Instance(Id[w])
        <3>1. file[w][Footer].place = Place(w, Footer)
            BY <2>1, MaterialFields DEF KeysOf
        <3>2. Place(w, Footer).kms_instance_id = OrDefault(Id[w])
            BY DEF Place, ForFooterKey
        <3> QED
            BY <3>1, <3>2, FooterNamesInstance
    <2>4. \A v \in Writers : Instance(Id[v]) = Instance(Id[w])
        BY <2>1 DEF SameInstance
    <2>5. m.master_key_id = MasterOf(w, key)
        BY <2>1, MaterialFields
    <2> HIDE DEF m
    <2>6. CASE ~m.double_wrapping /\ m.wrapped_dek = WrapKey(Id[w], MasterOf(w, key), Dek(w, key))
        <3>1. /\ m.wrapped_dek.by = Instance(Id[w]) /\ m.wrapped_dek.master = MasterOf(w, key)
              /\ m.wrapped_dek.key = Dek(w, key)
            BY <2>6 DEF WrapKey
        <3>2. Dek(w, key) \notin {None, Failed}
            BY <2>1, KeysAssumption
        <3> QED
            BY <2>2, <2>3, <2>5, <2>6, <3>1, <3>2 DEF m
    <2>7. ASSUME NEW v \in Writers, NEW k \in KeysOf(v), m.double_wrapping,
                 m.key_encryption_key_id = KekId(v, k),
                 m.wrapped_kek = WrapKey(Id[v], MasterOf(w, key), Kek(v, k)),
                 m.wrapped_dek = EncryptEncryptionKey(Dek(w, key), KekId(v, k), Kek(v, k))
          PROVE  /\ m.wrapped_kek.by = Instance(Id[w]) /\ m.wrapped_kek.master = MasterOf(w, key)
                 /\ m.wrapped_kek.key \notin {None, Failed}
                 /\ m.wrapped_dek.aad = m.key_encryption_key_id
                 /\ m.wrapped_dek.under = m.wrapped_kek.key
                 /\ m.wrapped_dek.dek # Failed
        <3>1. m.wrapped_kek.by = Instance(Id[w]) /\ m.wrapped_kek.master = MasterOf(w, key)
              /\ m.wrapped_kek.key = Kek(v, k)
            BY <2>4, <2>7 DEF WrapKey
        <3>2. m.wrapped_dek.aad = KekId(v, k) /\ m.wrapped_dek.under = Kek(v, k)
              /\ m.wrapped_dek.dek = Dek(w, key)
            BY <2>7 DEF EncryptEncryptionKey
        <3>3. k \in Keys
            BY KeyTypes
        <3> QED
            BY <2>1, <2>7, <3>1, <3>2, <3>3, KeysAssumption
    <2>8. CASE m.double_wrapping
        <3>1. PICK v \in Writers : \E k \in KeysOf(v) :
                    /\ m.key_encryption_key_id = KekId(v, k)
                    /\ m.wrapped_kek = WrapKey(Id[v], MasterOf(w, key), Kek(v, k))
                    /\ m.wrapped_dek = EncryptEncryptionKey(Dek(w, key), KekId(v, k), Kek(v, k))
            BY <2>1, <2>8, MaterialFields DEF m
        <3> QED
            BY <2>2, <2>3, <2>5, <2>7, <2>8, <3>1 DEF m
    <2>9. m.double_wrapping \/ m.wrapped_dek = WrapKey(Id[w], MasterOf(w, key), Dek(w, key))
        BY <2>1, MaterialFields DEF m
    <2> QED
        BY <2>6, <2>8, <2>9 DEF m
<1>3. ASSUME NEW v \in Done, NEW w \in Done, NEW k \in KeysOf(v), NEW l \in KeysOf(w),
             file[v][k].double_wrapping, file[w][l].double_wrapping,
             file[v][k].key_encryption_key_id = file[w][l].key_encryption_key_id
      PROVE  file[v][k].wrapped_kek.key = file[w][l].wrapped_kek.key
    <2>1. file[v][k] \in Materials /\ file[w][l] \in Materials
        BY <1>1 DEF Done, IInv, DoneOK, Materials
    <2> QED
        BY <1>3, <2>1, UnambiguousLemma DEF KekIdsAreUnambiguous
<1>4. \A f \in Written : \E w \in Done :
          /\ DOMAIN f = KeysOf(w) /\ Footer \in KeysOf(w)
          /\ \A key \in KeysOf(w) : f[key] = file[w][key]
    BY DEF Written, FileOf, KeysOf
<1>5. ASSUME NEW f \in Written, NEW key \in DOMAIN f
      PROVE  LET m == f[key]
                 byKms == IF m.double_wrapping THEN m.wrapped_kek ELSE m.wrapped_dek
             IN  /\ m.place.is_footer_key <=> key = Footer
                 /\ byKms.by = Instance(f[Footer].place.kms_instance_id)
                 /\ byKms.master = m.master_key_id
                 /\ byKms.key \notin {None, Failed}
                 /\ m.double_wrapping =>
                       /\ m.wrapped_dek.aad = m.key_encryption_key_id
                       /\ m.wrapped_dek.under = m.wrapped_kek.key
                       /\ m.wrapped_dek.dek # Failed
    <2>1. PICK w \in Done : /\ DOMAIN f = KeysOf(w) /\ f[key] = file[w][key]
                            /\ f[Footer] = file[w][Footer]
        BY <1>4
    <2> QED
        BY <1>2, <2>1
<1>6. ASSUME NEW f \in Written, NEW g \in Written, NEW k \in DOMAIN f, NEW l \in DOMAIN g,
             f[k].double_wrapping, g[l].double_wrapping,
             f[k].key_encryption_key_id = g[l].key_encryption_key_id
      PROVE  f[k].wrapped_kek.key = g[l].wrapped_kek.key
    <2>1. PICK v \in Done : k \in KeysOf(v) /\ f[k] = file[v][k]
        BY <1>4
    <2>2. PICK w \in Done : l \in KeysOf(w) /\ g[l] = file[w][l]
        BY <1>4
    <2> QED
        BY <1>3, <1>6, <2>1, <2>2
<1> QED
    BY <1>5, <1>6 DEF WellWritten

\* Who asks the KMS that wrapped a key gets the key.
LEMMA UnwrapWrapped ==
    ASSUME NEW id, NEW other, NEW master, NEW key, Instance(id) = Instance(other)
    PROVE  UnwrapKey(id, master, WrapKey(other, master, key)) = key
BY DEF UnwrapKey, WrapKey

LEMMA ReadableLemma ==
    ASSUME SameInstance, IInv
    PROVE  FilesAreReadable
<1> SUFFICES ASSUME NEW w \in Writers, writer[w].step = "done", NEW key \in KeysOf(w)
             PROVE  Recover(w, key) = Dek(w, key)
    BY DEF FilesAreReadable
<1> DEFINE m == file[w][key]
           id == file[w][Footer].place.kms_instance_id
<1>1. MaterialOK(w, key, m) /\ MaterialOK(w, Footer, file[w][Footer])
    BY KeyTypes DEF IInv, DoneOK, FilesOK, KeysOf
<1>2. id = OrDefault(Id[w])
    <2>1. file[w][Footer].place = Place(w, Footer)
        BY <1>1, MaterialFields DEF KeysOf
    <2> QED
        BY <2>1 DEF Place, ForFooterKey
<1>3. \A v \in Writers : Instance(id) = Instance(Id[v])
    BY <1>2, FooterNamesInstance DEF SameInstance
<1>4. m.master_key_id = MasterOf(w, key)
    BY <1>1, MaterialFields
<1>5. Recover(w, key) = IF m.double_wrapping
          THEN DecryptEncryptionKey(m.wrapped_dek, m.key_encryption_key_id,
                                    UnwrapKey(id, m.master_key_id, m.wrapped_kek))
          ELSE UnwrapKey(id, m.master_key_id, m.wrapped_dek)
    BY DEF Recover
<1>6. \/ ~m.double_wrapping /\ m.wrapped_dek = WrapKey(Id[w], MasterOf(w, key), Dek(w, key))
      \/ \E v \in Writers : \E k \in KeysOf(v) :
            /\ m.double_wrapping /\ m.key_encryption_key_id = KekId(v, k)
            /\ m.wrapped_kek = WrapKey(Id[v], MasterOf(w, key), Kek(v, k))
            /\ m.wrapped_dek = EncryptEncryptionKey(Dek(w, key), KekId(v, k), Kek(v, k))
    BY <1>1, MaterialFields
<1> HIDE DEF m, id
<1>7. CASE ~m.double_wrapping /\ m.wrapped_dek = WrapKey(Id[w], MasterOf(w, key), Dek(w, key))
    BY <1>3, <1>4, <1>5, <1>7, UnwrapWrapped
<1>8. ASSUME NEW v \in Writers, NEW k \in KeysOf(v), m.double_wrapping,
             m.key_encryption_key_id = KekId(v, k),
             m.wrapped_kek = WrapKey(Id[v], MasterOf(w, key), Kek(v, k)),
             m.wrapped_dek = EncryptEncryptionKey(Dek(w, key), KekId(v, k), Kek(v, k))
      PROVE  Recover(w, key) = Dek(w, key)
    <2>1. UnwrapKey(id, m.master_key_id, m.wrapped_kek) = Kek(v, k)
        BY <1>3, <1>4, <1>8, UnwrapWrapped
    <2>2. DecryptEncryptionKey(m.wrapped_dek, KekId(v, k), Kek(v, k)) = Dek(w, key)
        BY <1>8 DEF DecryptEncryptionKey, EncryptEncryptionKey
    <2> QED
        BY <1>5, <1>8, <2>1, <2>2
<1> QED
    BY <1>6, <1>7, <1>8

(***************************************************************************)
(* What holds of every behaviour.                                          *)
(***************************************************************************)
\* IInv is an invariant of the writers of any number of files.
THEOREM Invariance == Spec => []IInv
BY InitInv, NextInv, PTL DEF Spec

\* KEK caches, writers and files keep their types.
THEOREM TypeCorrect == Spec => []TypeOK
<1>1. IInv => TypeOK
    BY DEF IInv
<1> QED
    BY Invariance, <1>1, PTL

\* However many writers miss the KEK of a master key at once, one of them has the
\* KMS wrap one (get_key_metadata, key_wrapper.rs:63).
THEOREM OneKek == Spec => []OneKekPerMasterKey
<1>1. IInv => OneKekPerMasterKey
    BY DEF IInv, HistoryOK, OneKekPerMasterKey
<1> QED
    BY Invariance, <1>1, PTL

\* A KEK id never stands for two KEKs, in whichever files it occurs
\* (generate_key_encryption_key, key_wrapper.rs:112).
THEOREM KekIdsUnambiguous == Spec => []KekIdsAreUnambiguous
BY Invariance, UnambiguousLemma, PTL

\* Every key of a file that is done can be recovered, where all the writers use one
\* KMS instance; the run writers_two_instances shows that it matters.
THEOREM Readable == SameInstance => (Spec => []FilesAreReadable)
<1> SUFFICES ASSUME SameInstance PROVE Spec => []FilesAreReadable
    OBVIOUS
<1>1. IInv => FilesAreReadable
    BY ReadableLemma
<1> QED
    BY Invariance, <1>1, PTL

\* Such files satisfy what KeyUnwrapper assumes of the files it reads, whatever
\* was refreshed, expired or failed while they were written.
THEOREM WrittenAsRead == SameInstance => (Spec => []WellWritten(Written, Footer))
<1> SUFFICES ASSUME SameInstance PROVE Spec => []WellWritten(Written, Footer)
    OBVIOUS
<1>1. IInv => WellWritten(Written, Footer)
    BY WrittenLemma
<1> QED
    BY Invariance, <1>1, PTL

(***************************************************************************)
(* The refinement of KekCaches.                                            *)
(***************************************************************************)
LEMMA NewKekFits ==
    ASSUME NEW w \in Writers, NEW key \in KeysOf(w)
    PROVE  NewKek(w, key) \in KeksOfMaster[MasterOf(w, key)]
<1>1. NewKek(w, key) \in KeyEncryptionKey /\ MasterOf(w, key) \in Masters
    BY KeyTypes, NewKekType
<1>2. /\ NewKek(w, key).wrapped_key.master = MasterOf(w, key)
      /\ NewKek(w, key).wrapped_key.key = NewKek(w, key).key
    BY DEF NewKek, WrapKey
<1> QED
    BY <1>1, <1>2 DEF KeksOfMaster

LEMMA WriteImplements ==
    ASSUME IInv, NEW w \in Writers, Write(w)
    PROVE  Abstract!KCNext \/ UNCHANGED Abstract!kcVars
<1> DEFINE n == writer[w].cache
<1> USE DEF IInv, TypeOK, MutexOK
<1>1. ASSUME NEW key \in Keys, WrapWithKms(w, key) \/ UseKek(w, key)
      PROVE  UNCHANGED Abstract!kcVars
    BY <1>1 DEF WrapWithKms, UseKek, kekVars, Abstract!kcVars
<1>2. CASE Begin(w) \/ Reject(w) \/ Finish(w)
    BY <1>2 DEF Begin, Reject, Finish, kekVars, Abstract!kcVars
<1>3. ASSUME NEW key \in Keys, GenerateKek(w, key)
      PROVE  Abstract!KCNext
    <2>1. n \in Caches /\ MasterOf(w, key) \in Masters
        BY <1>3, KeyTypes DEF GenerateKek, IsNext, Writer
    <2>2. \A m \in Caches : holder[m] # w
        BY <1>3 DEF GenerateKek
    <2>3. Abstract!Miss(w, n)
        BY <1>3, <2>1, <2>2 DEF GenerateKek, Abstract!Miss
    <2> QED
        BY <2>1, <2>3 DEF Abstract!KCNext
<1>4. ASSUME writer[w].step = "wrap"
      PROVE  n \in Caches /\ holder[n] = w /\ writer[w].key \in KeysOf(w)
    BY <1>4 DEF Writer
<1>5. CASE KekWrapped(w)
    <2> DEFINE master == MasterOf(w, writer[w].key)
               kek == NewKek(w, writer[w].key)
    <2>1. /\ n \in Caches /\ holder[n] = w /\ keks[n][master] = None
          /\ writer[w].key \in KeysOf(w)
        BY <1>4, <1>5 DEF KekWrapped
    <2>2. master \in Masters /\ kek \in KeksOfMaster[master]
        BY <2>1, KeyTypes, NewKekFits
    <2>3. /\ keks' = [keks EXCEPT ![n][master] = kek]
          /\ holder' = [holder EXCEPT ![n] = None] /\ poisoned' = poisoned
        BY <1>5 DEF KekWrapped
    <2>4. keks'[n][master] = kek
        BY <2>1, <2>2, <2>3
    <2>5. Abstract!Store(w, n, master)
        BY <2>1, <2>2, <2>3, <2>4 DEF Abstract!Store, Abstract!Leave
    <2> QED
        BY <2>1, <2>2, <2>5 DEF Abstract!KCNext
<1>6. CASE KmsFails(w)
    <2>1. CASE writer[w].step = "wrap"
        BY <1>4, <1>6, <2>1 DEF KmsFails, Abstract!GiveUp, Abstract!Leave, Abstract!KCNext
    <2>2. CASE writer[w].step # "wrap"
        BY <1>6, <2>2 DEF KmsFails, Abstract!kcVars
    <2> QED
        BY <2>1, <2>2
<1>7. CASE KmsPanics(w)
    <2>1. CASE writer[w].step = "wrap"
        BY <1>4, <1>7, <2>1 DEF KmsPanics, Abstract!Panic, Abstract!Leave, Abstract!KCNext
    <2>2. CASE writer[w].step # "wrap"
        BY <1>7, <2>2 DEF KmsPanics, Abstract!kcVars
    <2> QED
        BY <2>1, <2>2
<1> QED
    BY <1>1, <1>2, <1>3, <1>5, <1>6, <1>7 DEF Write

\* The writers use their KEK caches as KekCaches says: KEKs are stored once, by who is
\* inside the mutex, and nothing is after a panic.
THEOREM Refinement == Spec => ImplementsKekCaches
<1>1. Init => Abstract!KCInit
    BY DEF Init, Abstract!KCInit
<1>2. IInv /\ [Next]_vars => [Abstract!KCNext]_(Abstract!kcVars)
    <2> SUFFICES ASSUME IInv, [Next]_vars
                 PROVE  Abstract!KCNext \/ UNCHANGED Abstract!kcVars
        OBVIOUS
    <2>1. ASSUME \/ UNCHANGED vars
                 \/ \E cell \in Cells, tok \in Tokens : Refresh(cell, tok)
                 \/ \E tok \in Tokens : Expire(tok)
          PROVE  UNCHANGED <<keks, holder, poisoned>>
        BY <2>1 DEF vars, kekVars, Refresh, Expire
    <2>2. ASSUME NEW w \in Writers, Write(w)
          PROVE  Abstract!KCNext \/ UNCHANGED Abstract!kcVars
        BY <2>2, WriteImplements
    <2> QED
        BY <2>1, <2>2 DEF Next, Abstract!kcVars
<1> QED
    BY <1>1, <1>2, Invariance, PTL DEF Spec, ImplementsKekCaches, Abstract!KCSpec
===============================================================================
