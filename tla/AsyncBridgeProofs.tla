--------------------------- MODULE AsyncBridgeProofs ---------------------------
(* Theorems about AsyncBridge, for every finite set of calls and every number of
   workers. *)
EXTENDS AsyncBridge, FiniteSetTheorems, TLAPS

(***************************************************************************)
(* The inductive invariant.                                                *)
(***************************************************************************)
\* The types, with as much about the caches and the counts as counting needs.
TypesOK ==
    /\ runtime \in Runtime
    /\ at \in [Calls -> Steps]
    /\ core \in [Calls -> {"none", "held", "handed"}]
    /\ holder \in [Mutexes -> Calls \cup {None}]
    /\ poisoned \subseteq Mutexes
    /\ clients \subseteq {Config[c] : c \in Calls} /\ IsFiniteSet(clients)
    /\ keks \in [write: SUBSET Keks("write"), read: SUBSET Keks("read")]
    /\ IsFiniteSet(keks.write) /\ IsFiniteSet(keks.read)
    /\ kms \in [invocations: Seq({Config[c] : c \in Calls}), keys_wrapped: Nat,
                keys_unwrapped: Nat]

\* A call that makes a client has the client cache locked, one on the way to a KEK the
\* KEK cache; what they are about to store is not there.
LocksOK(c) ==
    /\ at[c] = "kek" => Kek[c] # None
    /\ at[c] = "create" => holder["clients"] = c /\ Config[c] \notin clients
    /\ at[c] \in {"client", "create", "call", "kms"} /\ Kek[c] # None =>
          holder[Op[c]] = c /\ Kek[c] \notin keks[Op[c]]

\* Only spawned calls occupy workers, and not while tokio blocks on the KMS for them.
WorkersOK(c) ==
    /\ core[c] # "none" => c \in runtime.spawned
    /\ runtime.kind = "tokio" /\ at[c] \in {"create", "kms"} => core[c] # "held"

IInv == TypesOK /\ (\A c \in Calls : LocksOK(c) /\ WorkersOK(c)) /\ KmsAskedOnce

(***************************************************************************)
(* Lemmas.                                                                 *)
(***************************************************************************)
LEMMA CallTypes ==
    ASSUME NEW c \in Calls
    PROVE  Op[c] \in {"write", "read"} /\ Op[c] \in Mutexes /\ Op[c] # "clients" /\ c # None
BY CallsAssumption DEF Mutexes

\* The calls of singly wrapped keys that were answered.
Singles(op) == {c \in Calls : Op[c] = op /\ Kek[c] = None /\ at[c] = "done"}

LEMMA SinglesAreCounted ==
    IInv => \A op : IsFiniteSet(Singles(op)) /\ Cardinality(Singles(op)) \in Nat
<1> SUFFICES ASSUME NEW op PROVE IsFiniteSet(Singles(op)) /\ Cardinality(Singles(op)) \in Nat
    OBVIOUS
<1>1. Singles(op) \in SUBSET Calls
    BY DEF Singles
<1> QED
    BY <1>1, CallsAssumption, FS_Subset, FS_CardinalityType

\* Steps that answer no call and store nothing leave the counts as they are.
LEMMA CountsStay ==
    ASSUME IInv, UNCHANGED <<clients, keks, kms>>, NEW c \in Calls, NEW step,
           at' = [at EXCEPT ![c] = step], at[c] # "done", step # "done" \/ Kek[c] # None
    PROVE  KmsAskedOnce'
<1>1. \A op : Singles(op)' = Singles(op)
    BY DEF Singles, IInv, TypesOK
<1> QED
    BY <1>1 DEF IInv, KmsAskedOnce, Singles

\* What another call does to its own step and worker, and to mutexes it has or takes,
\* disturbs no one.
LEMMA OthersStay ==
    ASSUME IInv, NEW c \in Calls, NEW d \in Calls, d # c, runtime' = runtime,
           at'[d] = at[d], core'[d] = core[d],
           \A m \in Mutexes : holder[m] = d => holder'[m] = d,
           clients' = clients \/ at[c] = "create",
           clients' \subseteq clients \cup {Config[c]},
           keks' = keks \/ (at[c] = "kms" /\ Kek[c] # None),
           \A op \in {"write", "read"} :
               keks'[op] \subseteq keks[op] \cup (IF op = Op[c] THEN {Kek[c]} ELSE {})
    PROVE  LocksOK(d)' /\ WorkersOK(d)'
<1>1. LocksOK(d) /\ WorkersOK(d) /\ LocksOK(c)
    BY DEF IInv
<1>2. WorkersOK(d)'
    BY <1>1 DEF WorkersOK
<1>3. "clients" \in Mutexes /\ Op[d] \in Mutexes /\ Op[d] \in {"write", "read"}
    BY CallTypes DEF Mutexes
<1>4. at[d] = "create" => holder'["clients"] = d /\ Config[d] \notin clients'
    BY <1>1, <1>3 DEF LocksOK
<1>5. at[d] \in {"client", "create", "call", "kms"} /\ Kek[d] # None =>
          holder'[Op[d]] = d /\ Kek[d] \notin keks'[Op[d]]
    BY <1>1, <1>3 DEF LocksOK
<1> QED
    BY <1>1, <1>2, <1>4, <1>5 DEF LocksOK

LEMMA StepFacts ==
    ASSUME IInv, NEW c \in Calls
    PROVE  LocksOK(c) /\ WorkersOK(c) /\ TypesOK /\ at[c] \in Steps
BY DEF IInv, TypesOK

(***************************************************************************)
(* The initial states, and the steps of a call.                            *)
(***************************************************************************)
LEMMA InitInv == Init => IInv
<1> SUFFICES ASSUME Init PROVE IInv
    OBVIOUS
<1> USE DEF Init, NewKms
<1>1. TypesOK
    BY FS_EmptySet DEF TypesOK, Steps
<1>2. ASSUME NEW c \in Calls PROVE LocksOK(c) /\ WorkersOK(c)
    BY <1>2 DEF LocksOK, WorkersOK
<1>3. \A op : Singles(op) = {}
    BY DEF Singles
<1>4. KmsAskedOnce
    <2>1. \A op : Cardinality(Singles(op)) = 0
        BY <1>3, FS_EmptySet
    <2>2. Len(kms.invocations) = 0 /\ kms.keys_wrapped = 0 /\ kms.keys_unwrapped = 0
        OBVIOUS
    <2>3. Cardinality(clients) = 0 /\ Cardinality(keks.write) = 0 /\ Cardinality(keks.read) = 0
        BY FS_EmptySet
    <2> QED
        BY <2>1, <2>2, <2>3 DEF KmsAskedOnce, Singles
<1> QED
    BY <1>1, <1>2, <1>4 DEF IInv

\* A call goes on, or takes a mutex.
LEMMA GoOnInv ==
    ASSUME IInv, NEW c \in Calls,
           Start(c) \/ MissKek(c) \/ UseClient(c) \/ MissClient(c) \/ CallKms(c)
    PROVE  IInv'
<1> USE DEF Reenter, HandedOver
<1>1. LocksOK(c) /\ WorkersOK(c) /\ TypesOK
    BY StepFacts
<1>2. UNCHANGED <<runtime, poisoned, clients, keks, kms>>
    BY DEF Start, MissKek, UseClient, MissClient, CallKms
<1>3. PICK step \in {"client", "kek", "create", "call", "kms"} :
          at' = [at EXCEPT ![c] = step]
    BY DEF Start, MissKek, UseClient, MissClient, CallKms
<1>4. PICK worker \in {"none", "held", "handed"} : core' = [core EXCEPT ![c] = worker]
    <2>1. core[c] \in {"none", "held", "handed"} /\ core = [core EXCEPT ![c] = core[c]]
        BY <1>1 DEF TypesOK
    <2> QED
        BY <2>1 DEF Start, MissKek, UseClient, MissClient, CallKms
<1>5. \/ holder' = holder
      \/ \E m \in Mutexes : holder[m] = None /\ holder' = [holder EXCEPT ![m] = c]
    BY CallTypes DEF Start, MissKek, UseClient, MissClient, CallKms, MayLock, Mutexes
<1>6. at[c] \in {"idle", "kek", "client", "call"}
    BY DEF Start, MissKek, UseClient, MissClient, CallKms
<1>7. TypesOK'
    BY <1>1, <1>2, <1>3, <1>4, <1>5 DEF TypesOK, Steps
<1>8. KmsAskedOnce'
    BY <1>2, <1>3, <1>6, CountsStay
<1>9. ASSUME NEW d \in Calls, d # c PROVE LocksOK(d)' /\ WorkersOK(d)'
    <2>1. at'[d] = at[d] /\ core'[d] = core[d]
        BY <1>1, <1>3, <1>4, <1>9 DEF TypesOK
    <2>2. \A m \in Mutexes : holder[m] = d => holder'[m] = d
        BY <1>1, <1>5, <1>9, CallTypes DEF TypesOK
    <2> QED
        BY <1>2, <1>9, <2>1, <2>2, OthersStay
<1>10. LocksOK(c)'
    <2>1. Op[c] \in {"write", "read"} /\ at'[c] = step
        BY <1>1, <1>3, CallTypes DEF TypesOK
    <2>2. CASE Start(c)
        BY <1>1, <1>2, <2>1, <2>2 DEF Start, LocksOK, TypesOK
    <2>3. CASE MissKek(c)
        BY <1>1, <1>2, <2>1, <2>3 DEF MissKek, LocksOK, TypesOK, KekIsCached, Mutexes
    <2>4. CASE UseClient(c)
        BY <1>1, <1>2, <2>1, <2>4 DEF UseClient, LocksOK, TypesOK
    <2>5. CASE MissClient(c)
        BY <1>1, <1>2, <2>1, <2>5 DEF MissClient, LocksOK, TypesOK, Mutexes
    <2>6. CASE CallKms(c)
        BY <1>1, <1>2, <2>1, <2>6 DEF CallKms, LocksOK, TypesOK
    <2> QED
        BY <2>2, <2>3, <2>4, <2>5, <2>6
<1>11. WorkersOK(c)'
    BY <1>1, <1>2, <1>6 DEF WorkersOK, TypesOK, Start, MissKek, UseClient, MissClient, CallKms
<1> QED
    BY <1>7, <1>8, <1>9, <1>10, <1>11 DEF IInv

\* What is the same at the end of every call.
LEMMA EndFacts ==
    ASSUME IInv, NEW c \in Calls, NEW how \in Ends, at' = [at EXCEPT ![c] = how],
           core' = [core EXCEPT ![c] = "none"],
           holder' = [m \in Mutexes |-> IF holder[m] = c THEN None ELSE holder[m]]
    PROVE  /\ at' \in [Calls -> Steps] /\ core' \in [Calls -> {"none", "held", "handed"}]
           /\ holder' \in [Mutexes -> Calls \cup {None}]
           /\ LocksOK(c)' /\ WorkersOK(c)'
           /\ \A d \in Calls \ {c} :
                 /\ at'[d] = at[d] /\ core'[d] = core[d]
                 /\ \A m \in Mutexes : holder[m] = d => holder'[m] = d
<1>1. TypesOK
    BY StepFacts
<1>2. at'[c] = how /\ core'[c] = "none"
    BY <1>1 DEF TypesOK
<1>3. LocksOK(c)' /\ WorkersOK(c)'
    BY <1>2 DEF LocksOK, WorkersOK, Ends
<1> QED
    BY <1>1, <1>3 DEF TypesOK, Steps

\* A call ends and leaves nothing behind in the caches.
LEMMA EndInv ==
    ASSUME IInv, NEW c \in Calls,
           UseKek(c) \/ KmsFails(c) \/ Panics(c) \/ CreationPanics(c) \/ Reject(c)
    PROVE  IInv'
<1> USE DEF End
<1>1. LocksOK(c) /\ TypesOK
    BY StepFacts
<1>2. UNCHANGED <<runtime, clients, keks, kms>> /\ at[c] \notin Ends
      /\ core' = [core EXCEPT ![c] = "none"]
      /\ holder' = [m \in Mutexes |-> IF holder[m] = c THEN None ELSE holder[m]]
    BY DEF UseKek, KmsFails, Panics, CreationPanics, Reject, Ends
<1>3. PICK how \in Ends : at' = [at EXCEPT ![c] = how] /\ (how # "done" \/ Kek[c] # None)
    BY <1>1 DEF UseKek, KmsFails, Panics, CreationPanics, Reject, Ends, LocksOK
<1>4. poisoned' \subseteq Mutexes
    <2>1. HeldBy(c) \subseteq Mutexes /\ "clients" \in Mutexes
        BY DEF HeldBy, Mutexes
    <2> QED
        BY <1>1, <2>1 DEF UseKek, KmsFails, Panics, CreationPanics, Reject, TypesOK
<1>5. TypesOK'
    BY <1>1, <1>2, <1>3, <1>4, EndFacts DEF TypesOK
<1>6. KmsAskedOnce'
    BY <1>2, <1>3, CountsStay DEF Ends
<1>7. ASSUME NEW d \in Calls, d # c PROVE LocksOK(d)' /\ WorkersOK(d)'
    BY <1>2, <1>3, <1>7, EndFacts, OthersStay
<1> QED
    BY <1>2, <1>3, <1>5, <1>6, <1>7, EndFacts DEF IInv

\* A client that is made is one more, and the KMS was asked for it once more.
LEMMA ClientMadeInv ==
    ASSUME IInv, NEW c \in Calls, ClientMade(c)
    PROVE  IInv'
<1>1. LocksOK(c) /\ WorkersOK(c) /\ TypesOK /\ at[c] = "create"
    BY StepFacts DEF ClientMade
<1>2. /\ UNCHANGED <<runtime, poisoned, keks>> /\ at' = [at EXCEPT ![c] = "call"]
      /\ holder' = [holder EXCEPT !["clients"] = None]
      /\ clients' = clients \cup {Config[c]} /\ Config[c] \notin clients
      /\ kms' = [kms EXCEPT !.invocations = Append(@, Config[c])]
    BY <1>1 DEF ClientMade, CreateClient, LocksOK
<1>3. PICK worker \in {"none", "held"} : core' = [core EXCEPT ![c] = worker]
    <2>1. core[c] \in {"none", "held", "handed"} /\ core = [core EXCEPT ![c] = core[c]]
        BY <1>1 DEF TypesOK
    <2> QED
        BY <2>1 DEF ClientMade, GivesBack
<1>4. /\ IsFiniteSet(clients') /\ Cardinality(clients') = Cardinality(clients) + 1
      /\ Cardinality(clients) \in Nat
    BY <1>1, <1>2, FS_AddElement, FS_CardinalityType DEF TypesOK
<1>5. /\ kms'.invocations = Append(kms.invocations, Config[c])
      /\ kms'.keys_wrapped = kms.keys_wrapped /\ kms'.keys_unwrapped = kms.keys_unwrapped
      /\ kms.invocations \in Seq({Config[d] : d \in Calls})
    BY <1>1, <1>2 DEF TypesOK
<1>6. TypesOK'
    <2>1. kms' \in [invocations: Seq({Config[d] : d \in Calls}), keys_wrapped: Nat,
                    keys_unwrapped: Nat]
        <3>1. Config[c] \in {Config[d] : d \in Calls}
            OBVIOUS
        <3>2. Append(kms.invocations, Config[c]) \in Seq({Config[d] : d \in Calls})
            BY <1>5, <3>1
        <3> QED
            BY <1>1, <1>2, <3>2 DEF TypesOK
    <2> QED
        BY <1>1, <1>2, <1>3, <1>4, <2>1 DEF TypesOK, Steps, Mutexes
<1>7. KmsAskedOnce'
    <2>1. \A op : Singles(op)' = Singles(op)
        BY <1>1, <1>2 DEF Singles, TypesOK
    <2>2. Len(kms'.invocations) = Len(kms.invocations) + 1
        BY <1>5
    <2> QED
        BY <1>2, <1>4, <1>5, <2>1, <2>2 DEF IInv, KmsAskedOnce, Singles
<1>8. ASSUME NEW d \in Calls, d # c PROVE LocksOK(d)' /\ WorkersOK(d)'
    <2>1. at'[d] = at[d] /\ core'[d] = core[d]
        BY <1>1, <1>2, <1>3, <1>8 DEF TypesOK
    <2>2. \A m \in Mutexes : holder[m] = d => holder'[m] = d
        BY <1>1, <1>2, <1>8 DEF TypesOK, LocksOK
    <2> QED
        BY <1>1, <1>2, <1>8, <2>1, <2>2, OthersStay
<1>9. LocksOK(c)'
    BY <1>1, <1>2, CallTypes DEF LocksOK, TypesOK
<1>10. WorkersOK(c)'
    <2>1. core'[c] # "none" => core[c] # "none"
        BY <1>1 DEF ClientMade, GivesBack, TypesOK
    <2> QED
        BY <1>1, <1>2, <2>1 DEF WorkersOK, TypesOK
<1> QED
    BY <1>6, <1>7, <1>8, <1>9, <1>10 DEF IInv

\* An answer of the KMS is counted once, and is one KEK more or one key that is wrapped
\* singly.
LEMMA AnswerInv ==
    ASSUME IInv, NEW c \in Calls, KmsAnswers(c)
    PROVE  IInv'
<1> USE DEF End
<1> DEFINE op == Op[c]
<1>1. LocksOK(c) /\ WorkersOK(c) /\ TypesOK /\ at[c] = "kms"
    BY StepFacts DEF KmsAnswers
<1>2. op \in {"write", "read"}
    BY CallTypes
<1>3. /\ UNCHANGED <<runtime, clients>> /\ at' = [at EXCEPT ![c] = "done"]
      /\ core' = [core EXCEPT ![c] = "none"]
      /\ holder' = [m \in Mutexes |-> IF holder[m] = c THEN None ELSE holder[m]]
      /\ poisoned' = poisoned
      /\ keks' = IF Kek[c] = None THEN keks ELSE [keks EXCEPT ![op] = @ \cup {Kek[c]}]
    BY DEF KmsAnswers
<1>4. /\ op = "write" => kms' = [kms EXCEPT !.keys_wrapped = @ + 1]
      /\ op = "read" => kms' = [kms EXCEPT !.keys_unwrapped = @ + 1]
    <2>1. CASE op = "write"
        BY <2>1 DEF KmsAnswers, Answer, CountWrap, Wrapped
    <2>2. CASE op = "read"
        BY <2>2 DEF KmsAnswers, Answer, CountUnwrap
    <2> QED
        BY <1>2, <2>1, <2>2
<1>5. /\ kms' \in [invocations: Seq({Config[d] : d \in Calls}), keys_wrapped: Nat,
                   keys_unwrapped: Nat]
      /\ kms'.invocations = kms.invocations
      /\ kms'.keys_wrapped = kms.keys_wrapped + (IF op = "write" THEN 1 ELSE 0)
      /\ kms'.keys_unwrapped = kms.keys_unwrapped + (IF op = "read" THEN 1 ELSE 0)
    BY <1>1, <1>2, <1>4 DEF TypesOK
<1>6. Kek[c] # None => Kek[c] \in Keks(op) /\ Kek[c] \notin keks[op]
    BY <1>1 DEF LocksOK, Keks
<1>7. /\ keks' \in [write: SUBSET Keks("write"), read: SUBSET Keks("read")]
      /\ keks'.write = keks.write \cup (IF op = "write" /\ Kek[c] # None THEN {Kek[c]} ELSE {})
      /\ keks'.read = keks.read \cup (IF op = "read" /\ Kek[c] # None THEN {Kek[c]} ELSE {})
    BY <1>1, <1>2, <1>3, <1>6 DEF TypesOK
<1>8. \A k \in {"write", "read"} :
          /\ IsFiniteSet(keks'[k]) /\ Cardinality(keks[k]) \in Nat
          /\ Cardinality(keks'[k]) =
                Cardinality(keks[k]) + (IF op = k /\ Kek[c] # None THEN 1 ELSE 0)
    <2> SUFFICES ASSUME NEW k \in {"write", "read"}
                 PROVE  /\ IsFiniteSet(keks'[k]) /\ Cardinality(keks[k]) \in Nat
                        /\ Cardinality(keks'[k]) =
                              Cardinality(keks[k]) + (IF op = k /\ Kek[c] # None THEN 1 ELSE 0)
        OBVIOUS
    <2>1. IsFiniteSet(keks[k]) /\ Cardinality(keks[k]) \in Nat
        BY <1>1, FS_CardinalityType DEF TypesOK
    <2>2. CASE op = k /\ Kek[c] # None
        BY <1>6, <1>7, <2>1, <2>2, FS_AddElement
    <2>3. CASE ~(op = k /\ Kek[c] # None)
        <3>1. keks'[k] = keks[k]
            BY <1>7, <2>3
        <3> QED
            BY <2>1, <2>3, <3>1
    <2> QED
        BY <2>2, <2>3
<1>9. \A k \in {"write", "read"} : Cardinality(Singles(k)') =
          Cardinality(Singles(k)) + (IF op = k /\ Kek[c] = None THEN 1 ELSE 0)
    <2> SUFFICES ASSUME NEW k \in {"write", "read"}
                 PROVE  Cardinality(Singles(k)') =
                            Cardinality(Singles(k)) + (IF op = k /\ Kek[c] = None THEN 1 ELSE 0)
        OBVIOUS
    <2>1. c \notin Singles(k) /\ IsFiniteSet(Singles(k)) /\ Cardinality(Singles(k)) \in Nat
        BY <1>1, SinglesAreCounted DEF Singles
    <2>2. CASE op = k /\ Kek[c] = None
        <3>1. Singles(k)' = Singles(k) \cup {c}
            BY <1>1, <1>3, <2>2 DEF Singles, TypesOK
        <3> QED
            BY <2>1, <2>2, <3>1, FS_AddElement
    <2>3. CASE ~(op = k /\ Kek[c] = None)
        <3>1. Singles(k)' = Singles(k)
            BY <1>1, <1>3, <2>3 DEF Singles, TypesOK
        <3> QED
            BY <2>1, <2>3, <3>1
    <2> QED
        BY <2>2, <2>3
<1>10. KmsAskedOnce'
    <2>1. /\ Cardinality(Singles("write")) \in Nat /\ Cardinality(Singles("read")) \in Nat
          /\ kms.keys_wrapped = Cardinality(keks.write) + Cardinality(Singles("write"))
          /\ kms.keys_unwrapped = Cardinality(keks.read) + Cardinality(Singles("read"))
          /\ Len(kms.invocations) = Cardinality(clients)
        BY SinglesAreCounted DEF IInv, KmsAskedOnce, Singles
    <2>2. /\ Cardinality(keks.write) \in Nat /\ Cardinality(keks.read) \in Nat
          /\ Cardinality(keks'.write) =
                Cardinality(keks.write) + (IF op = "write" /\ Kek[c] # None THEN 1 ELSE 0)
          /\ Cardinality(keks'.read) =
                Cardinality(keks.read) + (IF op = "read" /\ Kek[c] # None THEN 1 ELSE 0)
        BY <1>8
    <2>3. kms'.keys_wrapped = Cardinality(keks'.write) + Cardinality(Singles("write")')
        BY <1>5, <1>9, <2>1, <2>2
    <2>4. kms'.keys_unwrapped = Cardinality(keks'.read) + Cardinality(Singles("read")')
        BY <1>5, <1>9, <2>1, <2>2
    <2> QED
        BY <1>3, <1>5, <2>1, <2>3, <2>4 DEF KmsAskedOnce, Singles
<1>11. "done" \in Ends
    BY DEF Ends
<1>12. TypesOK'
    BY <1>1, <1>3, <1>5, <1>7, <1>8, <1>11, EndFacts DEF TypesOK
<1>13. LocksOK(c)' /\ WorkersOK(c)'
    BY <1>3, <1>11, EndFacts
<1>14. ASSUME NEW d \in Calls, d # c PROVE LocksOK(d)' /\ WorkersOK(d)'
    <2>1. \A k \in {"write", "read"} :
              keks'[k] \subseteq keks[k] \cup (IF k = op THEN {Kek[c]} ELSE {})
        BY <1>7
    <2> QED
        BY <1>1, <1>3, <1>11, <1>14, <2>1, EndFacts, OthersStay
<1> QED
    BY <1>10, <1>12, <1>13, <1>14 DEF IInv

LEMMA NextInv == IInv /\ [Next]_vars => IInv'
<1> SUFFICES ASSUME IInv, [Next]_vars PROVE IInv'
    OBVIOUS
<1>1. ASSUME NEW c \in Calls, Proceed(c) PROVE IInv'
    BY <1>1, GoOnInv, EndInv, ClientMadeInv, AnswerInv DEF Proceed
<1>2. CASE UNCHANGED vars
    <2> USE <1>2 DEF vars
    <2>1. TypesOK'
        BY DEF IInv, TypesOK
    <2>2. ASSUME NEW c \in Calls PROVE LocksOK(c)' /\ WorkersOK(c)'
        BY DEF IInv, LocksOK, WorkersOK
    <2>3. KmsAskedOnce'
        BY DEF IInv, KmsAskedOnce
    <2> QED
        BY <2>1, <2>2, <2>3 DEF IInv
<1> QED
    BY <1>1, <1>2 DEF Next

(***************************************************************************)
(* The theorems.                                                           *)
(***************************************************************************)
\* While a call waits for the KMS the others fill no more workers than there are calls
\* besides it, or besides none where re-entering blocks its own.
LEMMA SpareWorker == IInv => OthersHaveAWorker
<1> SUFFICES ASSUME IInv, Enough, NEW c \in Calls, at[c] \in {"create", "kms"}
             PROVE  AWorkerIsFree
    BY DEF OthersHaveAWorker
<1> DEFINE held == {d \in Calls : core[d] = "held"}
           most == IF runtime.kind = "tokio" THEN runtime.spawned \ {c} ELSE runtime.spawned
<1>1. runtime \in Runtime /\ \A d \in Calls : WorkersOK(d)
    BY DEF IInv, TypesOK
<1>2. held \in SUBSET most
    BY <1>1 DEF WorkersOK
<1>3. most \in SUBSET Calls
    BY <1>1 DEF Runtime
<1>4. IsFiniteSet(most)
    BY <1>3, CallsAssumption, FS_Subset
<1>5. Cardinality(held) <= Cardinality(most) /\ IsFiniteSet(held)
    BY <1>2, <1>4, FS_Subset
<1>6. Cardinality(most) < runtime.workers
    BY DEF Enough
<1>7. Cardinality(held) \in Nat /\ Cardinality(most) \in Nat /\ runtime.workers \in Nat
    BY <1>1, <1>4, <1>5, CallsAssumption, FS_CardinalityType DEF Runtime
<1> QED
    BY <1>5, <1>6, <1>7 DEF AWorkerIsFree

\* The invariant holds of every behaviour.
THEOREM Invariance == Spec => []IInv
BY InitInv, NextInv, PTL DEF Spec

\* The runtime, the calls, the caches and the counts keep their types.
THEOREM TypeCorrect == Spec => []TypeOK
<1>1. IInv => TypeOK
    BY DEF IInv, TypesOK, TypeOK
<1> QED
    BY <1>1, Invariance, PTL

\* However many tasks need a client or a KEK, the KMS is asked for it once
\* (async_round_trip.rs).
THEOREM AskedOnce == Spec => []KmsAskedOnce
<1>1. IInv => KmsAskedOnce
    BY DEF IInv
<1> QED
    BY <1>1, Invariance, PTL

\* A runtime with enough workers always has one for what the KMS needs, whoever blocks
\* in the mutexes meanwhile (reenter_async.rs:42).
THEOREM WorkerToSpare == Spec => []OthersHaveAWorker
BY Invariance, SpareWorker, PTL

(***************************************************************************)
(* The refinement of KekCaches.                                            *)
(***************************************************************************)
Inside == {"client", "create", "call", "kms"}

\* A call is in one KEK cache at most, that of its operation, on its way to a KEK.
HeldOK ==
    \A c \in Calls, n \in KekCache : holder[n] = c =>
        n = Op[c] /\ at[c] \in Inside /\ Kek[c] # None

holderBar == [op \in KekCache |-> holder[op]]
poisonedBar == poisoned \ {"clients"}

\* What a call does to the KEK cache of its operation: nothing, or it gets in.
LEMMA GetsIn ==
    ASSUME IInv, HeldOK, NEW c \in Calls,
           Start(c) \/ MissKek(c) \/ UseClient(c) \/ MissClient(c) \/ ClientMade(c) \/ CallKms(c)
    PROVE  HeldOK' /\ (Abstract!KCNext \/ UNCHANGED <<keksBar, holderBar, poisonedBar>>)
<1> USE DEF IInv, TypesOK
<1>1. Op[c] \in KekCache /\ Op[c] \in Mutexes /\ Op[c] # "clients" /\ c # None
    BY CallTypes DEF KekCache
<1>2. KekCache \subseteq Mutexes /\ "clients" \notin KekCache /\ None \notin Calls
    BY CallsAssumption DEF KekCache, Mutexes
<1>3. CASE MissKek(c)
    <2>1. /\ at[c] = "kek" /\ holder[Op[c]] = None /\ Op[c] \notin poisoned
          /\ Kek[c] \notin keks[Op[c]] /\ Kek[c] # None
          /\ holder' = [holder EXCEPT ![Op[c]] = c] /\ at' = [at EXCEPT ![c] = "client"]
          /\ UNCHANGED <<poisoned, keks>>
        BY <1>3 DEF MissKek, MayLock, KekIsCached, LocksOK
    <2>2. HeldOK'
        BY <1>1, <1>2, <2>1 DEF HeldOK, Inside
    <2>3. \A n \in KekCache : holder[n] # c
        BY <2>1 DEF HeldOK, Inside
    <2>4. Kek[c] \in KekNames
        BY <1>1, <2>1 DEF KekNames, Keks, KekCache
    <2>5. holderBar' = [holderBar EXCEPT ![Op[c]] = c]
        BY <1>1, <1>2, <2>1 DEF holderBar
    <2>6. keksBar[Op[c]][Kek[c]] = None /\ keksBar' = keksBar
        BY <1>1, <2>1, <2>4 DEF keksBar
    <2>7. Abstract!Miss(c, Op[c])
        BY <1>1, <2>1, <2>3, <2>4, <2>5, <2>6 DEF Abstract!Miss, holderBar
    <2> QED
        BY <1>1, <2>2, <2>7 DEF Abstract!KCNext
<1>4. CASE Start(c) \/ UseClient(c) \/ MissClient(c) \/ ClientMade(c) \/ CallKms(c)
    <2>1. /\ UNCHANGED <<poisoned, keks>>
          /\ holder' \in {holder, [holder EXCEPT !["clients"] = c],
                           [holder EXCEPT !["clients"] = None]}
        BY <1>4 DEF Start, UseClient, MissClient, ClientMade, CallKms, Reenter
    <2>2. \A n \in KekCache : holder'[n] = holder[n]
        BY <1>2, <2>1
    <2>3. PICK step \in {"kek"} \cup Inside : at' = [at EXCEPT ![c] = step]
        BY <1>4 DEF Start, UseClient, MissClient, ClientMade, CallKms, Reenter, Inside
    <2>4. at[c] = "idle" \/ step \in Inside
        BY <1>4, <2>3 DEF Start, UseClient, MissClient, ClientMade, CallKms, Reenter, Inside
    <2>5. HeldOK'
        BY <2>2, <2>3, <2>4 DEF HeldOK, Inside
    <2> QED
        BY <2>1, <2>2, <2>5 DEF keksBar, holderBar, poisonedBar
<1> QED
    BY <1>3, <1>4

\* The end of a call, inside a KEK cache or outside, and with what it leaves behind.
LEMMA GetsOut ==
    ASSUME IInv, HeldOK, NEW c \in Calls,
           UseKek(c) \/ KmsAnswers(c) \/ KmsFails(c) \/ Panics(c) \/ CreationPanics(c) \/ Reject(c)
    PROVE  HeldOK' /\ (Abstract!KCNext \/ UNCHANGED <<keksBar, holderBar, poisonedBar>>)
<1> USE DEF IInv, TypesOK
<1>1. Op[c] \in KekCache /\ Op[c] \in Mutexes /\ Op[c] # "clients" /\ c # None
    BY CallTypes DEF KekCache
<1>2. KekCache \subseteq Mutexes /\ "clients" \notin KekCache /\ None \notin Calls
    BY CallsAssumption DEF KekCache, Mutexes
<1>3. /\ holder' = [m \in Mutexes |-> IF holder[m] = c THEN None ELSE holder[m]]
      /\ at' = [at EXCEPT ![c] = at'[c]]
      /\ \/ poisonedBar' = poisonedBar
         \/ poisonedBar' = poisonedBar \cup (HeldBy(c) \cap KekCache)
    <2>1. CASE CreationPanics(c)
        BY <2>1 DEF CreationPanics, poisonedBar, KekCache, HeldBy, Mutexes
    <2>2. CASE UseKek(c) \/ KmsAnswers(c) \/ KmsFails(c) \/ Panics(c) \/ Reject(c)
        <3>1. PICK how : End(c, how)
            BY <2>2 DEF UseKek, KmsAnswers, KmsFails, Panics, Reject
        <3> QED
            BY <3>1 DEF End, poisonedBar, KekCache, HeldBy, Mutexes
    <2> QED
        BY <2>1, <2>2
<1>4. HeldOK'
    BY <1>2, <1>3 DEF HeldOK
<1>5. CASE holder[Op[c]] # c
    <2>1. \A n \in KekCache : holder[n] # c
        BY <1>5 DEF HeldOK
    <2>2. holderBar' = holderBar /\ HeldBy(c) \cap KekCache = {}
        BY <1>2, <1>3, <2>1 DEF holderBar, HeldBy
    <2>3. keks' = keks
        BY <1>5 DEF UseKek, KmsAnswers, KmsFails, Panics, CreationPanics, Reject, LocksOK
    <2> QED
        BY <1>3, <1>4, <2>2, <2>3 DEF keksBar
<1>6. CASE holder[Op[c]] = c
    <2>1. /\ holderBar' = [holderBar EXCEPT ![Op[c]] = None] /\ holderBar[Op[c]] = c
          /\ HeldBy(c) \cap KekCache = {Op[c]} /\ Kek[c] # None /\ at[c] \in Inside
        <3>1. Kek[c] # None /\ at[c] \in Inside /\ \A n \in KekCache : holder[n] = c <=> n = Op[c]
            BY <1>1, <1>6 DEF HeldOK
        <3>2. \A n \in KekCache : holder'[n] = IF n = Op[c] THEN None ELSE holder[n]
            BY <1>2, <1>3, <3>1
        <3>3. holderBar' = [holderBar EXCEPT ![Op[c]] = None] /\ holderBar[Op[c]] = c
            BY <1>1, <1>6, <3>2 DEF holderBar
        <3> QED
            BY <1>1, <1>2, <3>1, <3>3 DEF HeldBy
    <2>2. Abstract!Leave(c, Op[c])
        BY <2>1 DEF Abstract!Leave, holderBar
    <2>3. CASE KmsAnswers(c)
        <3>1. /\ keks' = [keks EXCEPT ![Op[c]] = @ \cup {Kek[c]}]
              /\ poisoned' = poisoned /\ Kek[c] \notin keks[Op[c]]
            BY <2>1, <2>3 DEF KmsAnswers, End, LocksOK
        <3>2. Kek[c] \in KekNames
            BY <1>1, <2>1 DEF KekNames, Keks, KekCache
        <3>3. keksBar[Op[c]][Kek[c]] = None
            BY <1>1, <3>1, <3>2 DEF keksBar
        <3>4. /\ keksBar' = [keksBar EXCEPT ![Op[c]][Kek[c]] = Kek[c]]
              /\ keksBar'[Op[c]][Kek[c]] = Kek[c]
            <4>1. \A op \in KekCache, name \in KekNames :
                      name \in keks'[op] <=> name \in keks[op] \/ (op = Op[c] /\ name = Kek[c])
                BY <1>1, <3>1 DEF KekCache
            <4> DEFINE old == keksBar
                       new == keksBar'
            <4>2. \A op \in KekCache, name \in KekNames :
                      new[op][name] = IF op = Op[c] /\ name = Kek[c] THEN Kek[c]
                                      ELSE old[op][name]
                BY <4>1 DEF keksBar
            <4>3. /\ old = [op \in KekCache |-> [name \in KekNames |-> old[op][name]]]
                  /\ new = [op \in KekCache |-> [name \in KekNames |-> new[op][name]]]
                BY DEF keksBar
            <4> HIDE DEF old, new
            <4>4. new = [old EXCEPT ![Op[c]][Kek[c]] = Kek[c]]
                <5> DEFINE changed == [old EXCEPT ![Op[c]][Kek[c]] = Kek[c]]
                <5>1. ASSUME NEW op \in KekCache PROVE new[op] = changed[op]
                    <6>1. /\ new[op] = [name \in KekNames |-> new[op][name]]
                          /\ old[op] = [name \in KekNames |-> old[op][name]]
                        BY <4>3
                    <6>2. changed[op] = IF op = Op[c] THEN [old[op] EXCEPT ![Kek[c]] = Kek[c]]
                                        ELSE old[op]
                        BY <1>1, <4>3
                    <6> QED
                        BY <3>2, <4>2, <6>1, <6>2
                <5>2. /\ new = [op \in KekCache |-> new[op]]
                      /\ changed = [op \in KekCache |-> changed[op]]
                    BY <4>3
                <5> QED
                    BY <5>1, <5>2
            <4>5. new[Op[c]][Kek[c]] = Kek[c]
                BY <1>1, <3>2, <4>2
            <4> QED
                BY <4>4, <4>5 DEF old, new
        <3>5. Abstract!Store(c, Op[c], Kek[c])
            <4>1. keksBar'[Op[c]][Kek[c]] \in [name \in KekNames |-> {name}][Kek[c]]
                BY <3>2, <3>4
            <4>2. (poisoned \ {"clients"})' = poisoned \ {"clients"}
                BY <3>1
            <4>3. keksBar' = [keksBar EXCEPT ![Op[c]][Kek[c]] = keksBar'[Op[c]][Kek[c]]]
                BY <3>4
            <4> QED
                BY <2>2, <3>3, <4>1, <4>2, <4>3 DEF Abstract!Store
        <3> QED
            BY <1>1, <1>4, <3>2, <3>5 DEF Abstract!KCNext
    <2>4. CASE ~KmsAnswers(c)
        <3>1. keksBar' = keksBar
            BY <2>4 DEF UseKek, KmsFails, Panics, CreationPanics, Reject, keksBar
        <3>2. \/ poisonedBar' = poisonedBar
              \/ poisonedBar' = poisonedBar \cup {Op[c]}
            BY <1>3, <2>1
        <3>3. Abstract!GiveUp(c, Op[c]) \/ Abstract!Panic(c, Op[c])
            BY <2>2, <3>1, <3>2 DEF Abstract!GiveUp, Abstract!Panic, poisonedBar
        <3> QED
            BY <1>1, <1>4, <3>3 DEF Abstract!KCNext
    <2> QED
        BY <2>3, <2>4
<1> QED
    BY <1>5, <1>6

\* Under any of the runtimes the calls use the KEK caches as KekCaches says.
THEOREM Refinement == Spec => ImplementsKekCaches
<1>1. Init => Abstract!KCInit /\ HeldOK
    <2> SUFFICES ASSUME Init PROVE Abstract!KCInit /\ HeldOK
        OBVIOUS
    <2>1. \A n \in KekCache : n \in Mutexes /\ keks[n] = {} /\ holder[n] = None
        BY DEF Init, KekCache, Mutexes
    <2>2. keksBar = [n \in KekCache |-> [name \in KekNames |-> None]]
        BY <2>1 DEF keksBar
    <2>3. [op \in KekCache |-> holder[op]] = [n \in KekCache |-> None] /\ poisoned = {}
        BY <2>1 DEF Init
    <2> QED
        BY <2>1, <2>2, <2>3, CallsAssumption DEF Abstract!KCInit, HeldOK
<1>2. IInv /\ HeldOK /\ [Next]_vars => HeldOK' /\ [Abstract!KCNext]_(Abstract!kcVars)
    <2> SUFFICES ASSUME IInv, HeldOK, [Next]_vars
                 PROVE  HeldOK' /\ (Abstract!KCNext \/ UNCHANGED Abstract!kcVars)
        OBVIOUS
    <2>1. ASSUME UNCHANGED vars
          PROVE  HeldOK' /\ UNCHANGED <<keksBar, holderBar, poisonedBar>>
        BY <2>1 DEF vars, HeldOK, keksBar, holderBar, poisonedBar
    <2>2. ASSUME NEW c \in Calls, Proceed(c)
          PROVE  HeldOK' /\ (Abstract!KCNext \/ UNCHANGED <<keksBar, holderBar, poisonedBar>>)
        BY <2>2, GetsIn, GetsOut DEF Proceed
    <2> QED
        BY <2>1, <2>2 DEF Next, Abstract!kcVars, holderBar, poisonedBar
<1> QED
    BY <1>1, <1>2, Invariance, PTL DEF Spec, ImplementsKekCaches, Abstract!KCSpec
================================================================================
