--------------------------- MODULE KmsManagerProofs ---------------------------
(* Theorems about KmsManager, for every number of threads, configs and tokens, and
   whether readers of the token wait for its writers or not. *)
EXTENDS KmsManager, TLAPS

(***************************************************************************)
(* The inductive invariant.                                                *)
(***************************************************************************)
CallOf(keys) ==
    [at: ClientCache!Phases, key: keys \cup {None},
     outcome: ClientCache!Outcomes, value: Made \cup {None}]

CachesOK ==
    /\ clients \in [ClientKey -> ClientCache!Entry \cup {None}]
    /\ reads \in [KekCacheKey -> ReadCache!Entry \cup {None}]
    /\ writes \in [KekCacheKey -> WriteCache!Entry \cup {None}]
    /\ clientsHolder \in Threads \cup {None} /\ clientsPoisoned \in BOOLEAN
    /\ readsHolder \in Threads \cup {None} /\ readsPoisoned \in BOOLEAN
    /\ writesHolder \in Threads \cup {None} /\ writesPoisoned \in BOOLEAN

GetOps == {"client"} \cup KekOps
Getting == {"lookup", "factory", "build"}

\* The key a thread looks up.
KeyOf(t) == IF task[t].op = "client" THEN ClientKeyOf(t) ELSE task[t].token

\* The step of a thread's task goes with what it does in a cache, and with the key it
\* does that for.
StepOK(t) ==
    /\ task[t].step # "idle" => task[t].op \in Ops /\ task[t].config \in Configs
    /\ task[t].step = "refresh" => task[t].op = "refresh" /\ task[t].token \in Tokens
    /\ task[t].step \notin {"idle", "refresh"} => task[t].op \in GetOps
    /\ task[t].step \in Clearing => task[t].cleans
    /\ task[t].step \in Getting => task[t].token \in Tokens
    /\ task[t].step = "factory" => task[t].op = "client"
    /\ call[t].at = "clear" => task[t].step \in Clearing
    /\ call[t].at = "get" => task[t].step = "lookup"
    /\ call[t].at = "create" => task[t].step \in {"factory", "build"}
    /\ call[t].at \in {"get", "create"} => call[t].key = KeyOf(t)
    /\ call[t].at \in {"idle", "clear"} => call[t].key = None
    /\ call[t].at # "idle" => call[t].outcome = "none"

\* The token of a get_client stays in force until it returns: its read guard keeps
\* refreshes out.
GuardOK(t) ==
    task[t].op = "client" /\ task[t].step \in Getting =>
        task[t].token = token[Cell[task[t].config]]

ThreadsOK ==
    /\ token \in [Cells -> Tokens]
    /\ task \in [Threads -> Task]
    /\ call \in [Threads -> CallOf(ClientKey \cup Tokens)]
    /\ \A t \in Threads : StepOK(t) /\ GuardOK(t)

MadeOK == made \in [Threads -> 0 .. MaxCalls]

IInv == CachesOK /\ ThreadsOK /\ MadeOK /\ ClientsMatchTheirKeys

(***************************************************************************)
(* Lemmas about threads.                                                   *)
(***************************************************************************)
\* A step of one thread disturbs no other.
LEMMA OneThread ==
    ASSUME ThreadsOK, NEW t \in Threads, NEW newTask \in Task,
           NEW newCall \in CallOf(ClientKey \cup Tokens),
           task' = [task EXCEPT ![t] = newTask], call' = [call EXCEPT ![t] = newCall],
           token' = token, StepOK(t)', GuardOK(t)'
    PROVE  ThreadsOK'
<1>1. /\ task' \in [Threads -> Task] /\ call' \in [Threads -> CallOf(ClientKey \cup Tokens)]
      /\ \A r \in Threads \ {t} : task'[r] = task[r] /\ call'[r] = call[r]
    BY DEF ThreadsOK
<1>2. ASSUME NEW r \in Threads \ {t} PROVE StepOK(r)' /\ GuardOK(r)'
    <2>1. StepOK(r) /\ GuardOK(r)
        BY DEF ThreadsOK
    <2> QED
        BY <1>1, <2>1 DEF StepOK, GuardOK, KeyOf, ClientKeyOf
<1> QED
    BY <1>1, <1>2 DEF ThreadsOK

\* What a thread has looked up is a key of the cache it did that in.
LEMMA KeyTypes ==
    ASSUME ThreadsOK, NEW t \in Threads, task[t].step \in Getting
    PROVE  /\ MadeBy(t) \in Made
           /\ task[t].op \in GetOps /\ task[t].token \in Tokens /\ task[t].config \in Configs
           /\ task[t].op = "client" => KeyOf(t) \in ClientKey
           /\ task[t].op # "client" => KeyOf(t) \in KekCacheKey
<1> USE ConfigsAssumption DEF ThreadsOK, StepOK, Getting, Steps, KekCacheKey
<1> QED
    BY DEF MadeBy, Made, KeyOf, ClientKeyOf, ClientKey

\* The answers and the questions of a cache are calls.
LEMMA Calls ==
    /\ \A outcome \in ClientCache!Outcomes, value \in Made \cup {None} :
          ClientCache!Idle(outcome, value) \in CallOf(ClientKey \cup Tokens)
    /\ \A at \in ClientCache!Phases, key \in ClientKey \cup Tokens \cup {None} :
          ClientCache!Busy(at, key) \in CallOf(ClientKey \cup Tokens)
BY DEF CallOf, ClientCache!Idle, ClientCache!Busy, ClientCache!Phases, ClientCache!Outcomes

\* The three caches ask and answer alike.
LEMMA Alike ==
    /\ \A outcome, value : /\ ReadCache!Idle(outcome, value) = ClientCache!Idle(outcome, value)
                           /\ WriteCache!Idle(outcome, value) = ClientCache!Idle(outcome, value)
    /\ \A at, key : /\ ReadCache!Busy(at, key) = ClientCache!Busy(at, key)
                    /\ WriteCache!Busy(at, key) = ClientCache!Busy(at, key)
BY DEF ClientCache!Idle, ReadCache!Idle, WriteCache!Idle,
       ClientCache!Busy, ReadCache!Busy, WriteCache!Busy

(***************************************************************************)
(* The initial states, and the steps of a call one by one.                 *)
(***************************************************************************)
LEMMA InitInv == Init => IInv
<1> SUFFICES ASSUME Init PROVE IInv
    OBVIOUS
<1> USE DEF Init
<1>1. CachesOK
    BY DEF CachesOK, ClientCache!LCInit, ReadCache!LCInit, WriteCache!LCInit
<1>2. call = [t \in Threads |-> ClientCache!Idle("none", None)]
    BY DEF ClientCache!LCInit
<1>3. ThreadsOK
    <2>1. AtRest \in Task
        BY DEF AtRest, Task, Steps
    <2>2. ClientCache!Idle("none", None) \in CallOf(ClientKey \cup Tokens)
        BY Calls DEF ClientCache!Outcomes
    <2>3. ASSUME NEW t \in Threads PROVE StepOK(t) /\ GuardOK(t)
        BY <1>2 DEF AtRest, StepOK, GuardOK, Getting, Clearing, ClientCache!Idle
    <2> QED
        BY <1>2, <2>1, <2>2, <2>3, ConfigsAssumption DEF ThreadsOK
<1>4. MadeOK
    BY MaxCallsAssumption DEF MadeOK
<1>5. ClientsMatchTheirKeys
    BY DEF ClientsMatchTheirKeys, ClientCache!LCInit
<1> QED
    BY <1>1, <1>3, <1>4, <1>5 DEF IInv

LEMMA BeginInv ==
    ASSUME IInv, NEW t \in Threads, NEW op \in Ops, NEW c \in Configs, NEW cleans \in BOOLEAN,
           NEW first \in {"clients", "token", "refresh"}, NEW tok \in Tokens \cup {None},
           first = "clients" => cleans,
           first = "refresh" => op = "refresh" /\ tok \in Tokens,
           first # "refresh" => op \in GetOps,
           Begin(t, op, c, cleans, first, tok)
    PROVE  IInv'
<1> DEFINE newTask == [op |-> op, config |-> c, cleans |-> cleans, step |-> first, token |-> tok]
<1>1. newTask \in Task
    BY DEF Task, Steps
<1>2. /\ task' = [task EXCEPT ![t] = newTask] /\ task[t].step = "idle"
      /\ call' = call /\ token' = token
    BY DEF Begin
<1> HIDE DEF newTask
<1>3. call[t] \in CallOf(ClientKey \cup Tokens) /\ call' = [call EXCEPT ![t] = call[t]]
      /\ task'[t] = newTask /\ call'[t] = call[t] /\ StepOK(t)
    BY <1>2 DEF IInv, ThreadsOK
<1>4. call[t].at = "idle" /\ call[t].key = None
    <2>1. call[t].at \in ClientCache!Phases
        BY <1>3 DEF CallOf
    <2> QED
        BY <1>2, <1>3, <2>1 DEF StepOK, Clearing, ClientCache!Phases
<1>5. StepOK(t)' /\ GuardOK(t)'
    BY <1>3, <1>4 DEF newTask, StepOK, GuardOK, Getting, Clearing
<1>6. ThreadsOK'
    BY <1>1, <1>2, <1>3, <1>5, OneThread DEF IInv
<1>7. MadeOK'
    BY MaxCallsAssumption DEF Begin, IInv, MadeOK
<1> QED
    BY <1>6, <1>7 DEF IInv, Begin, CachesOK, ClientsMatchTheirKeys, clientVars, readVars, writeVars

\* A refresh waits for the guards of the token's cell.
LEMMA RefreshInv ==
    ASSUME IInv, NEW t \in Threads, Refresh(t)
    PROVE  IInv'
<1> DEFINE cell == Cell[task[t].config]
<1>1. /\ task[t].step = "refresh" /\ Guards(cell) = {} /\ call' = call
      /\ token' = [token EXCEPT ![cell] = task[t].token]
      /\ task' = [task EXCEPT ![t] = AtRest]
    BY DEF Refresh
<1>2. AtRest \in Task
    BY DEF AtRest, Task, Steps
<1>3. ThreadsOK /\ StepOK(t)
    BY DEF IInv, ThreadsOK
<1>4. token' \in [Cells -> Tokens] /\ task' \in [Threads -> Task]
      /\ call' \in [Threads -> CallOf(ClientKey \cup Tokens)]
    BY <1>1, <1>2, <1>3 DEF ThreadsOK, StepOK
<1>5. StepOK(t)' /\ GuardOK(t)'
    <2>1. task'[t] = AtRest /\ call'[t] = call[t]
        BY <1>1, <1>3 DEF ThreadsOK
    <2>2. call[t].at = "idle"
        <3>1. call[t].at \in ClientCache!Phases
            BY <1>3 DEF ThreadsOK, CallOf
        <3> QED
            BY <1>1, <1>3, <3>1 DEF StepOK, Clearing, ClientCache!Phases
    <2> QED
        BY <1>3, <2>1, <2>2 DEF StepOK, GuardOK, AtRest, Getting, Clearing
<1>6. ASSUME NEW r \in Threads \ {t} PROVE StepOK(r)' /\ GuardOK(r)'
    <2>1. task'[r] = task[r] /\ call'[r] = call[r] /\ StepOK(r) /\ GuardOK(r)
        BY <1>1, <1>3 DEF ThreadsOK
    <2>2. task[r].op = "client" /\ task[r].step \in Getting => Cell[task[r].config] # cell
        BY <1>1 DEF Guards, Getting
    <2>3. task[r].op = "client" /\ task[r].step \in Getting => Cell[task[r].config] \in Cells
        BY <1>3, <2>1, ConfigsAssumption DEF StepOK, Getting
    <2>4. \A d \in Cells : d # cell => token'[d] = token[d]
        BY <1>1, <1>3 DEF ThreadsOK
    <2> QED
        BY <2>1, <2>2, <2>3, <2>4 DEF StepOK, GuardOK, KeyOf, ClientKeyOf
<1>7. ThreadsOK'
    BY <1>4, <1>5, <1>6 DEF ThreadsOK
<1> QED
    BY <1>7 DEF IInv, Refresh, CachesOK, MadeOK, ClientsMatchTheirKeys,
                clientVars, readVars, writeVars

\* Most steps change no entry.
LEMMA EntriesStay ==
    ASSUME IInv, UNCHANGED <<clients, reads, writes>>,
           {clientsHolder', readsHolder', writesHolder'} \subseteq Threads \cup {None},
           {clientsPoisoned', readsPoisoned', writesPoisoned'} \subseteq BOOLEAN
    PROVE  CachesOK' /\ ClientsMatchTheirKeys'
BY DEF IInv, CachesOK, ClientsMatchTheirKeys

LEMMA HoldersTypes ==
    ASSUME IInv
    PROVE  /\ {clientsHolder, readsHolder, writesHolder} \subseteq Threads \cup {None}
           /\ {clientsPoisoned, readsPoisoned, writesPoisoned} \subseteq BOOLEAN
BY DEF IInv, CachesOK

\* A thread moves on without a cache.
LEMMA MoveInv ==
    ASSUME IInv, NEW t \in Threads, NotDue(t) \/ ReadToken(t) \/ FactoryReadsToken(t)
    PROVE  IInv'
<1>1. /\ call' = call /\ token' = token /\ made' = made
      /\ UNCHANGED <<clientVars, readVars, writeVars>>
    BY DEF NotDue, ReadToken, FactoryReadsToken
<1>2. CachesOK' /\ ClientsMatchTheirKeys'
    BY <1>1, HoldersTypes, EntriesStay DEF clientVars, readVars, writeVars
<1>3. /\ ThreadsOK /\ StepOK(t) /\ GuardOK(t)
      /\ task[t] \in Task /\ call[t] \in CallOf(ClientKey \cup Tokens)
      /\ call' = [call EXCEPT ![t] = call[t]]
    BY <1>1 DEF IInv, ThreadsOK
<1>4. CASE NotDue(t)
    <2> DEFINE newTask == [task[t] EXCEPT !.step = AfterClearing(task[t].step)]
    <2>1. /\ task' = [task EXCEPT ![t] = newTask] /\ task[t].step \in Clearing
          /\ call[t].at = "idle" /\ AfterClearing(task[t].step) \in {"reads", "writes", "token"}
        BY <1>3, <1>4 DEF NotDue, MoveTo, AfterClearing, Clearing, ThreadsOK
    <2>2. newTask \in Task
        BY <1>3, <2>1 DEF Task, Steps
    <2>3. task'[t] = newTask /\ call'[t] = call[t]
        BY <1>1, <1>3, <2>1 DEF ThreadsOK
    <2>4. StepOK(t)' /\ GuardOK(t)'
        BY <1>3, <2>1, <2>3 DEF StepOK, GuardOK, Task, Clearing, Getting
    <2> HIDE DEF newTask
    <2>5. ThreadsOK'
        BY <1>1, <1>3, <2>1, <2>2, <2>4, OneThread
    <2> QED
        BY <1>1, <1>2, <2>5 DEF IInv, MadeOK
<1>5. CASE ReadToken(t) \/ FactoryReadsToken(t)
    <2> DEFINE tok == token[Cell[task[t].config]]
               step == IF task[t].step = "token" THEN "lookup" ELSE "build"
               newTask == [task[t] EXCEPT !.step = step, !.token = tok]
    <2>1. /\ task' = [task EXCEPT ![t] = newTask]
          /\ task[t].step = "token" \/ task[t].step = "factory"
        BY <1>3, <1>5 DEF ReadToken, FactoryReadsToken, ThreadsOK
    <2>2. tok \in Tokens
        BY <1>3, <2>1, ConfigsAssumption DEF ThreadsOK, StepOK
    <2>3. newTask \in Task
        BY <1>3, <2>1, <2>2 DEF Task, Steps
    <2>4. task'[t] = newTask /\ call'[t] = call[t]
        BY <1>1, <1>3, <2>1 DEF ThreadsOK
    <2>5. call[t].at \in ClientCache!Phases
        BY <1>3 DEF CallOf
    <2>6. StepOK(t)' /\ GuardOK(t)'
        BY <1>1, <1>3, <2>1, <2>2, <2>4, <2>5
           DEF StepOK, GuardOK, Task, Clearing, Getting, KeyOf, ClientKeyOf, ClientCache!Phases
    <2> HIDE DEF newTask
    <2>7. ThreadsOK'
        BY <1>1, <1>3, <2>1, <2>3, <2>6, OneThread
    <2> QED
        BY <1>1, <1>2, <2>7 DEF IInv, MadeOK
<1> QED
    BY <1>4, <1>5

\* A thread enters the mutex of a cache, or waits to.
LEMMA EnterInv ==
    ASSUME IInv, NEW t \in Threads, StartClear(t) \/ LookUp(t) \/ Missing(t)
    PROVE  IInv'
<1>1. token' = token /\ made' = made
    BY DEF StartClear, LookUp, Missing
<1>2. /\ ThreadsOK /\ StepOK(t) /\ GuardOK(t)
      /\ task[t] \in Task /\ call[t] \in CallOf(ClientKey \cup Tokens)
    BY DEF IInv, ThreadsOK
<1>3. CachesOK' /\ ClientsMatchTheirKeys'
    <2>1. UNCHANGED <<clients, reads, writes, clientsPoisoned, readsPoisoned, writesPoisoned>>
        BY DEF StartClear, LookUp, Missing, InClients, InReads, InWrites,
               clientVars, readVars, writeVars,
               ClientCache!StartClear, ReadCache!StartClear, WriteCache!StartClear,
               ClientCache!StartGet, ReadCache!StartGet, WriteCache!StartGet,
               ClientCache!Miss, ReadCache!Miss, WriteCache!Miss
    <2>2. /\ clientsHolder' \in {clientsHolder, t}
          /\ readsHolder' \in {readsHolder, t}
          /\ writesHolder' \in {writesHolder, t}
        BY DEF StartClear, LookUp, Missing, InClients, InReads, InWrites,
               clientVars, readVars, writeVars,
               ClientCache!StartClear, ReadCache!StartClear, WriteCache!StartClear,
               ClientCache!StartGet, ReadCache!StartGet, WriteCache!StartGet,
               ClientCache!Miss, ReadCache!Miss, WriteCache!Miss
    <2> QED
        BY <2>1, <2>2, HoldersTypes, EntriesStay
<1>4. CASE StartClear(t)
    <2> DEFINE newCall == ClientCache!Busy("clear", None)
    <2>1. /\ call' = [call EXCEPT ![t] = newCall] /\ task' = task
          /\ task[t].step \in Clearing
        BY <1>4, Alike DEF StartClear, InClients, InReads, InWrites, Clearing,
               ClientCache!StartClear, ReadCache!StartClear, WriteCache!StartClear
    <2>2. newCall \in CallOf(ClientKey \cup Tokens)
        BY Calls DEF ClientCache!Phases
    <2>3. task'[t] = task[t] /\ call'[t] = newCall /\ task' = [task EXCEPT ![t] = task[t]]
        BY <1>2, <2>1 DEF ThreadsOK
    <2>4. StepOK(t)' /\ GuardOK(t)'
        BY <1>1, <1>2, <2>1, <2>3 DEF StepOK, GuardOK, ClientCache!Busy
    <2> HIDE DEF newCall
    <2>5. ThreadsOK'
        BY <1>1, <1>2, <2>1, <2>2, <2>3, <2>4, OneThread
    <2> QED
        BY <1>1, <1>3, <2>5 DEF IInv, MadeOK
<1>5. CASE LookUp(t)
    <2> DEFINE newCall == ClientCache!Busy("get", KeyOf(t))
    <2>1. task[t].step = "lookup" /\ task' = task
        BY <1>5 DEF LookUp
    <2>2. call' = [call EXCEPT ![t] = newCall]
        BY <1>5, Alike DEF LookUp, InClients, InReads, InWrites, KeyOf,
               ClientCache!StartGet, ReadCache!StartGet, WriteCache!StartGet
    <2>3. KeyOf(t) \in ClientKey \cup Tokens
        BY <1>2, <2>1, KeyTypes DEF Getting, KekCacheKey
    <2>4. newCall \in CallOf(ClientKey \cup Tokens)
        BY <2>3, Calls DEF ClientCache!Phases
    <2>5. task'[t] = task[t] /\ call'[t] = newCall /\ task' = [task EXCEPT ![t] = task[t]]
        BY <1>2, <2>1, <2>2 DEF ThreadsOK
    <2>6. StepOK(t)' /\ GuardOK(t)'
        BY <1>1, <1>2, <2>1, <2>5 DEF StepOK, GuardOK, KeyOf, ClientKeyOf, ClientCache!Busy
    <2> HIDE DEF newCall
    <2>7. ThreadsOK'
        BY <1>1, <1>2, <2>2, <2>4, <2>5, <2>6, OneThread
    <2> QED
        BY <1>1, <1>3, <2>7 DEF IInv, MadeOK
<1>6. CASE Missing(t)
    <2> DEFINE step == IF task[t].op = "client" THEN "factory" ELSE "build"
               newTask == [task[t] EXCEPT !.step = step]
               newCall == ClientCache!Busy("create", call[t].key)
    <2>1. task[t].step = "lookup"
        BY <1>6 DEF Missing
    <2>2. task' = [task EXCEPT ![t] = newTask]
        BY <1>2, <1>6 DEF Missing, MoveTo, ThreadsOK
    <2>3. call' = [call EXCEPT ![t] = newCall] /\ call[t].at = "get"
        BY <1>6, Alike DEF Missing, InClients, InReads, InWrites,
               ClientCache!Miss, ReadCache!Miss, WriteCache!Miss
    <2>4. call[t].key \in ClientKey \cup Tokens \cup {None}
        BY <1>2 DEF CallOf
    <2>5. newTask \in Task /\ newCall \in CallOf(ClientKey \cup Tokens)
        BY <1>2, <2>1, <2>4, Calls DEF Task, Steps, ClientCache!Phases
    <2>6. task'[t] = newTask /\ call'[t] = newCall
        BY <1>2, <2>2, <2>3 DEF ThreadsOK
    <2>7. StepOK(t)' /\ GuardOK(t)'
        BY <1>1, <1>2, <2>1, <2>3, <2>6
           DEF StepOK, GuardOK, KeyOf, ClientKeyOf, Task, Getting, Clearing, ClientCache!Busy
    <2> HIDE DEF newTask, newCall
    <2>8. ThreadsOK'
        BY <1>1, <1>2, <2>2, <2>3, <2>5, <2>7, OneThread
    <2> QED
        BY <1>1, <1>3, <2>8 DEF IInv, MadeOK
<1> QED
    BY <1>4, <1>5, <1>6

\* A thread has its answer.
LEMMA AnswerInv ==
    ASSUME IInv, NEW t \in Threads, End(t), token' = token, NEW outcome \in ClientCache!Outcomes,
           NEW value \in Made \cup {None},
           call' = [call EXCEPT ![t] = ClientCache!Idle(outcome, value)]
    PROVE  ThreadsOK'
<1> DEFINE newCall == ClientCache!Idle(outcome, value)
<1>1. AtRest \in Task /\ newCall \in CallOf(ClientKey \cup Tokens)
    BY Calls DEF AtRest, Task, Steps
<1>2. ThreadsOK /\ task' = [task EXCEPT ![t] = AtRest] /\ call' = [call EXCEPT ![t] = newCall]
    BY DEF IInv, End
<1>3. task'[t] = AtRest /\ call'[t] = newCall
    BY <1>2 DEF ThreadsOK
<1>4. StepOK(t)' /\ GuardOK(t)'
    BY <1>3 DEF StepOK, GuardOK, AtRest, Getting, Clearing, ClientCache!Idle
<1> HIDE DEF newCall
<1> QED
    BY <1>1, <1>2, <1>4, OneThread

\* What a sweep removes is gone, and the rest stays as it was.
LEMMA SweepInv ==
    ASSUME IInv, NEW t \in Threads, Sweep(t)
    PROVE  IInv'
<1> USE DEF InClients, InReads, InWrites, clientVars, readVars, writeVars,
            ClientCache!Sweep, ReadCache!Sweep, WriteCache!Sweep
<1> DEFINE newCall == ClientCache!Idle("ok", None)
           newTask == [task[t] EXCEPT !.step = AfterClearing(task[t].step)]
<1>1. token' = token /\ made' = made /\ MoveTo(t, AfterClearing(task[t].step))
    BY DEF Sweep
<1>2. /\ ThreadsOK /\ StepOK(t) /\ GuardOK(t)
      /\ task[t] \in Task /\ call[t] \in CallOf(ClientKey \cup Tokens)
    BY DEF IInv, ThreadsOK
<1>3. call' = [call EXCEPT ![t] = newCall]
    BY Alike DEF Sweep
<1>4. task[t].step \in Clearing /\ AfterClearing(task[t].step) \in {"reads", "writes", "token"}
    BY DEF Sweep, Clearing, AfterClearing
<1>5. newTask \in Task /\ newCall \in CallOf(ClientKey \cup Tokens)
    BY <1>2, <1>4, Calls DEF Task, Steps, ClientCache!Outcomes
<1>6. task' = [task EXCEPT ![t] = newTask] /\ task'[t] = newTask /\ call'[t] = newCall
    BY <1>1, <1>2, <1>3 DEF ThreadsOK, MoveTo
<1>7. StepOK(t)' /\ GuardOK(t)'
    BY <1>1, <1>2, <1>4, <1>6 DEF StepOK, GuardOK, Task, Clearing, Getting, ClientCache!Idle
<1>8. ThreadsOK'
    <2> HIDE DEF newTask, newCall
    <2> QED
        BY <1>1, <1>2, <1>3, <1>5, <1>6, <1>7, OneThread
<1>9. /\ UNCHANGED <<clientsHolder, clientsPoisoned, readsHolder, readsPoisoned,
                     writesHolder, writesPoisoned>>
      /\ clients' = clients \/ \E removed \in SUBSET ClientKey :
            clients' = [k \in ClientKey |-> IF k \in removed THEN None ELSE clients[k]]
      /\ reads' = reads \/ \E removed \in SUBSET KekCacheKey :
            reads' = [k \in KekCacheKey |-> IF k \in removed THEN None ELSE reads[k]]
      /\ writes' = writes \/ \E removed \in SUBSET KekCacheKey :
            writes' = [k \in KekCacheKey |-> IF k \in removed THEN None ELSE writes[k]]
    BY DEF Sweep
<1>10. CachesOK'
    BY <1>9 DEF IInv, CachesOK
<1>11. ClientsMatchTheirKeys'
    BY <1>9 DEF IInv, ClientsMatchTheirKeys
<1> QED
    BY <1>1, <1>8, <1>10, <1>11 DEF IInv, MadeOK

\* A call ends without a new entry.
LEMMA LeaveInv ==
    ASSUME IInv, NEW t \in Threads,
           Abort(t) \/ Cached(t) \/ CreationFails(t) \/ CreationPanics(t)
    PROVE  IInv'
<1> USE DEF InClients, InReads, InWrites, clientVars, readVars, writeVars
<1>1. token' = token /\ made' = made /\ End(t)
    BY DEF Abort, Cached, CreationFails, CreationPanics
<1>2. /\ ThreadsOK /\ StepOK(t) /\ CachesOK
      /\ task[t] \in Task /\ call[t] \in CallOf(ClientKey \cup Tokens)
    BY DEF IInv, ThreadsOK
<1>3. UNCHANGED <<clients, reads, writes>>
    BY DEF Abort, Cached, CreationFails, CreationPanics,
           ClientCache!Reject, ReadCache!Reject, WriteCache!Reject,
           ClientCache!Hit, ReadCache!Hit, WriteCache!Hit, ClientCache!CreateErr,
           ClientCache!CreatePanic, ReadCache!CreatePanic, WriteCache!CreatePanic
<1>4. /\ clientsHolder' \in {clientsHolder, None} /\ clientsPoisoned' \in {clientsPoisoned, TRUE}
      /\ readsHolder' \in {readsHolder, None} /\ readsPoisoned' \in {readsPoisoned, TRUE}
      /\ writesHolder' \in {writesHolder, None} /\ writesPoisoned' \in {writesPoisoned, TRUE}
    BY DEF Abort, Cached, CreationFails, CreationPanics,
           ClientCache!Reject, ReadCache!Reject, WriteCache!Reject,
           ClientCache!Hit, ReadCache!Hit, WriteCache!Hit, ClientCache!CreateErr,
           ClientCache!CreatePanic, ReadCache!CreatePanic, WriteCache!CreatePanic
<1>5. CachesOK' /\ ClientsMatchTheirKeys'
    <2>1. {clientsPoisoned', readsPoisoned', writesPoisoned'} \subseteq BOOLEAN
        BY <1>4, HoldersTypes
    <2> QED
        BY <1>3, <1>4, <2>1, HoldersTypes, EntriesStay
<1>6. \E outcome \in ClientCache!Outcomes, value \in Made \cup {None} :
          call' = [call EXCEPT ![t] = ClientCache!Idle(outcome, value)]
    <2>1. CASE Abort(t) \/ CreationFails(t) \/ CreationPanics(t)
        <3>1. \E outcome \in {"failed", "panicked"} :
                  call' = [call EXCEPT ![t] = ClientCache!Idle(outcome, None)]
            BY <2>1, Alike DEF Abort, CreationFails, CreationPanics,
               ClientCache!Reject, ReadCache!Reject, WriteCache!Reject, ClientCache!CreateErr,
               ClientCache!CreatePanic, ReadCache!CreatePanic, WriteCache!CreatePanic
        <3> QED
            BY <3>1 DEF ClientCache!Outcomes
    <2>2. CASE Cached(t)
        <3>1. task[t].step \in Getting /\ call[t].at = "get"
            BY <2>2 DEF Cached, Getting, ClientCache!Hit, ReadCache!Hit, WriteCache!Hit
        <3>2. CASE task[t].op = "client"
            <4>1. /\ call' = [call EXCEPT ![t] =
                         ClientCache!Idle("ok", clients[call[t].key].value)]
                  /\ clients[call[t].key] # None
                BY <2>2, <3>2 DEF Cached, ClientCache!Hit, ClientCache!IsLive
            <4>2. clients[call[t].key].value \in Made
                BY <1>2, <3>1, <3>2, <4>1, KeyTypes DEF StepOK, CachesOK, ClientCache!Entry
            <4> QED
                BY <4>1, <4>2 DEF ClientCache!Outcomes
        <3>3. CASE task[t].op = "read"
            <4>1. /\ call' = [call EXCEPT ![t] =
                         ClientCache!Idle("ok", reads[call[t].key].value)]
                  /\ reads[call[t].key] # None
                BY <2>2, <3>3, Alike DEF Cached, ReadCache!Hit, ReadCache!IsLive
            <4>2. reads[call[t].key].value \in Made
                BY <1>2, <3>1, <3>3, <4>1, KeyTypes DEF StepOK, CachesOK, ReadCache!Entry
            <4> QED
                BY <4>1, <4>2 DEF ClientCache!Outcomes
        <3>4. CASE task[t].op = "write"
            <4>1. /\ call' = [call EXCEPT ![t] =
                         ClientCache!Idle("ok", writes[call[t].key].value)]
                  /\ writes[call[t].key] # None
                BY <2>2, <3>4, Alike DEF Cached, WriteCache!Hit, WriteCache!IsLive
            <4>2. writes[call[t].key].value \in Made
                BY <1>2, <3>1, <3>4, <4>1, KeyTypes DEF StepOK, CachesOK, WriteCache!Entry
            <4> QED
                BY <4>1, <4>2 DEF ClientCache!Outcomes
        <3> QED
            BY <2>2, <3>2, <3>3, <3>4 DEF Cached
    <2> QED
        BY <2>1, <2>2
<1>7. ThreadsOK'
    BY <1>1, <1>6, AnswerInv
<1> QED
    BY <1>1, <1>5, <1>7 DEF IInv, MadeOK

\* A client is filed under the token its factory read, which is the one it was looked
\* up with.
LEMMA CreatedInv ==
    ASSUME IInv, NEW t \in Threads, NEW live \in BOOLEAN, Created(t, live)
    PROVE  IInv'
<1> USE DEF InClients, InReads, InWrites, clientVars, readVars, writeVars,
            ClientCache!CreateOk, ReadCache!CreateOk, WriteCache!CreateOk
<1> DEFINE entry == [value |-> MadeBy(t), live |-> live]
<1>1. token' = token /\ made' = made /\ End(t) /\ task[t].step = "build"
      /\ call[t].at = "create"
    BY DEF Created
<1>2. ThreadsOK /\ StepOK(t) /\ CachesOK /\ ClientsMatchTheirKeys
    BY DEF IInv, ThreadsOK
<1>3. /\ MadeBy(t) \in Made /\ task[t].op \in GetOps
      /\ task[t].op = "client" => call[t].key \in ClientKey /\ call[t].key = ClientKeyOf(t)
      /\ task[t].op # "client" => call[t].key \in KekCacheKey
    BY <1>1, <1>2, KeyTypes DEF StepOK, Getting, KeyOf
<1>4. call' = [call EXCEPT ![t] = ClientCache!Idle("ok", MadeBy(t))]
    BY Alike DEF Created
<1>5. ThreadsOK'
    BY <1>1, <1>3, <1>4, AnswerInv DEF ClientCache!Outcomes
<1>6. /\ clients' = clients \/ (task[t].op = "client" /\ clients' = [clients EXCEPT ![call[t].key] = entry])
      /\ reads' = reads \/ (task[t].op = "read" /\ reads' = [reads EXCEPT ![call[t].key] = entry])
      /\ writes' = writes \/ (task[t].op = "write" /\ writes' = [writes EXCEPT ![call[t].key] = entry])
    BY DEF Created
<1>7. /\ clientsHolder' \in {clientsHolder, None} /\ clientsPoisoned' = clientsPoisoned
      /\ readsHolder' \in {readsHolder, None} /\ readsPoisoned' = readsPoisoned
      /\ writesHolder' \in {writesHolder, None} /\ writesPoisoned' = writesPoisoned
    BY DEF Created
<1>8. CachesOK'
    <2>1. /\ entry \in ClientCache!Entry /\ entry \in ReadCache!Entry
          /\ entry \in WriteCache!Entry
        BY <1>3 DEF ClientCache!Entry, ReadCache!Entry, WriteCache!Entry
    <2> HIDE DEF entry
    <2>2. clients' \in [ClientKey -> ClientCache!Entry \cup {None}]
        BY <1>2, <1>3, <1>6, <2>1 DEF CachesOK
    <2>3. reads' \in [KekCacheKey -> ReadCache!Entry \cup {None}]
        BY <1>2, <1>3, <1>6, <2>1 DEF CachesOK
    <2>4. writes' \in [KekCacheKey -> WriteCache!Entry \cup {None}]
        BY <1>2, <1>3, <1>6, <2>1 DEF CachesOK
    <2> QED
        BY <1>2, <1>7, <2>2, <2>3, <2>4 DEF CachesOK
<1>9. ClientsMatchTheirKeys'
    <2> SUFFICES ASSUME NEW k \in ClientKey, clients'[k] # None
                 PROVE  /\ clients'[k].value.token = k.key_access_token
                        /\ Id[clients'[k].value.config] = k.kms_instance_id
        BY DEF ClientsMatchTheirKeys
    <2>1. CASE clients'[k] = clients[k]
        BY <1>2, <2>1 DEF ClientsMatchTheirKeys
    <2>2. CASE clients'[k] # clients[k]
        <3>1. k = ClientKeyOf(t) /\ clients'[k] = entry
            BY <1>2, <1>3, <1>6, <2>2 DEF CachesOK
        <3> QED
            BY <3>1 DEF ClientKeyOf, MadeBy
    <2> QED
        BY <2>1, <2>2
<1> QED
    BY <1>1, <1>5, <1>8, <1>9 DEF IInv, MadeOK

\* An entry that expires is otherwise what it was.
LEMMA ExpireInv ==
    ASSUME IInv, Expire
    PROVE  IInv'
<1> USE DEF InClients, InReads, InWrites, clientVars, readVars, writeVars,
            ClientCache!Expire, ReadCache!Expire, WriteCache!Expire
<1>1. UNCHANGED <<token, task, made, call, clientsHolder, clientsPoisoned,
                  readsHolder, readsPoisoned, writesHolder, writesPoisoned>>
    BY DEF Expire
<1>2. /\ clients' = clients \/ \E s \in SUBSET ClientKey : clients' = [k \in ClientKey |->
              IF k \in s /\ clients[k] # None
              THEN [value |-> clients[k].value, live |-> FALSE] ELSE clients[k]]
      /\ reads' = reads \/ \E s \in SUBSET KekCacheKey : reads' = [k \in KekCacheKey |->
              IF k \in s /\ reads[k] # None
              THEN [value |-> reads[k].value, live |-> FALSE] ELSE reads[k]]
      /\ writes' = writes \/ \E s \in SUBSET KekCacheKey : writes' = [k \in KekCacheKey |->
              IF k \in s /\ writes[k] # None
              THEN [value |-> writes[k].value, live |-> FALSE] ELSE writes[k]]
    BY DEF Expire
<1>3. CachesOK'
    <2> DEFINE Expired(e) == [value |-> e.value, live |-> FALSE]
    <2>1. /\ \A e \in ClientCache!Entry : Expired(e) \in ClientCache!Entry
          /\ \A e \in ReadCache!Entry : Expired(e) \in ReadCache!Entry
          /\ \A e \in WriteCache!Entry : Expired(e) \in WriteCache!Entry
        BY DEF ClientCache!Entry, ReadCache!Entry, WriteCache!Entry
    <2>2. clients' \in [ClientKey -> ClientCache!Entry \cup {None}]
        BY <1>2, <2>1 DEF IInv, CachesOK
    <2>3. reads' \in [KekCacheKey -> ReadCache!Entry \cup {None}]
        BY <1>2, <2>1 DEF IInv, CachesOK
    <2>4. writes' \in [KekCacheKey -> WriteCache!Entry \cup {None}]
        BY <1>2, <2>1 DEF IInv, CachesOK
    <2> QED
        BY <1>1, <2>2, <2>3, <2>4 DEF IInv, CachesOK
<1>4. ClientsMatchTheirKeys'
    BY <1>2 DEF IInv, ClientsMatchTheirKeys
<1>5. ThreadsOK'
    BY <1>1 DEF IInv, ThreadsOK, StepOK, GuardOK, KeyOf, ClientKeyOf
<1> QED
    BY <1>1, <1>3, <1>4, <1>5 DEF IInv, MadeOK

LEMMA NextInv == IInv /\ [Next]_vars => IInv'
<1> SUFFICES ASSUME IInv, [Next]_vars PROVE IInv'
    OBVIOUS
<1>1. ASSUME NEW t \in Threads, NEW op \in Ops, NEW c \in Configs, NEW cleans \in BOOLEAN,
             BeginGet(t, op, c, cleans)
      PROVE  IInv'
    <2>1. op \in GetOps
        BY <1>1 DEF BeginGet, Ops, GetOps
    <2> QED
        BY <1>1, <2>1, BeginInv DEF BeginGet
<1>2. ASSUME NEW t \in Threads, NEW c \in Configs, NEW tok \in Tokens, BeginRefresh(t, c, tok)
      PROVE  IInv'
    BY <1>2, BeginInv DEF BeginRefresh, Ops
<1>3. ASSUME NEW t \in Threads, Proceed(t) PROVE IInv'
    BY <1>3, RefreshInv, MoveInv, EnterInv, SweepInv, LeaveInv DEF Proceed
<1>4. ASSUME NEW t \in Threads, Create(t) PROVE IInv'
    BY <1>4, MoveInv, LeaveInv, CreatedInv DEF Create
<1>5. CASE UNCHANGED vars
    <2> USE <1>5 DEF vars, clientVars, readVars, writeVars
    <2>1. CachesOK' /\ ClientsMatchTheirKeys' /\ MadeOK'
        BY DEF IInv, CachesOK, ClientsMatchTheirKeys, MadeOK
    <2>2. ThreadsOK'
        BY DEF IInv, ThreadsOK, StepOK, GuardOK, KeyOf, ClientKeyOf
    <2> QED
        BY <2>1, <2>2 DEF IInv
<1> QED
    BY <1>1, <1>2, <1>3, <1>4, <1>5, ExpireInv DEF Next

(***************************************************************************)
(* What the calls of a thread may do.                                      *)
(***************************************************************************)
\* What one thread does leaves the tasks and the calls of the others alone.
LEMMA OthersStay ==
    ASSUME IInv, NEW r \in Threads, Proceed(r) \/ Create(r), NEW t \in Threads, t # r
    PROVE  task'[t] = task[t] /\ call'[t] = call[t]
<1>1. task \in [Threads -> Task] /\ call \in [Threads -> CallOf(ClientKey \cup Tokens)]
    BY DEF IInv, ThreadsOK
<1>2. CASE Refresh(r) \/ NotDue(r) \/ ReadToken(r) \/ FactoryReadsToken(r)
    BY <1>1, <1>2 DEF Refresh, NotDue, ReadToken, FactoryReadsToken, MoveTo
<1>3. CASE StartClear(r) \/ LookUp(r) \/ Missing(r)
    BY <1>1, <1>3 DEF StartClear, LookUp, Missing, MoveTo, InClients, InReads, InWrites,
       ClientCache!StartClear, ReadCache!StartClear, WriteCache!StartClear,
       ClientCache!StartGet, ReadCache!StartGet, WriteCache!StartGet,
       ClientCache!Miss, ReadCache!Miss, WriteCache!Miss
<1>4. CASE Sweep(r)
    BY <1>1, <1>4 DEF Sweep, MoveTo, InClients, InReads, InWrites,
       ClientCache!Sweep, ReadCache!Sweep, WriteCache!Sweep
<1>5. CASE Abort(r) \/ Cached(r) \/ CreationFails(r) \/ CreationPanics(r)
    BY <1>1, <1>5 DEF Abort, Cached, CreationFails, CreationPanics, End,
       InClients, InReads, InWrites, ClientCache!Reject, ReadCache!Reject, WriteCache!Reject,
       ClientCache!Hit, ReadCache!Hit, WriteCache!Hit, ClientCache!CreateErr,
       ClientCache!CreatePanic, ReadCache!CreatePanic, WriteCache!CreatePanic
<1>6. ASSUME NEW live \in BOOLEAN, Created(r, live)
      PROVE  task'[t] = task[t] /\ call'[t] = call[t]
    BY <1>1, <1>6 DEF Created, End, InClients, InReads, InWrites,
       ClientCache!CreateOk, ReadCache!CreateOk, WriteCache!CreateOk
<1> QED
    BY <1>2, <1>3, <1>4, <1>5, <1>6 DEF Proceed, Create

\* A call changes in a step of its own thread.
LEMMA OwnStep ==
    ASSUME IInv, [Next]_vars, NEW t \in Threads, call[t].at # "idle",
           task'[t] # task[t] \/ call'[t] # call[t]
    PROVE  Proceed(t) \/ Create(t)
<1>1. task \in [Threads -> Task] /\ call[t] \in CallOf(ClientKey \cup Tokens) /\ StepOK(t)
    BY DEF IInv, ThreadsOK
<1>2. call[t].at \in ClientCache!Phases
    BY <1>1 DEF CallOf
<1>3. task[t].step # "idle"
    BY <1>1, <1>2 DEF StepOK, Clearing, ClientCache!Phases
<1>4. ASSUME NEW r \in Threads, NEW op, NEW c, NEW cleans, NEW first, NEW tok,
             Begin(r, op, c, cleans, first, tok)
      PROVE  FALSE
    BY <1>1, <1>3, <1>4 DEF Begin
<1>5. ~UNCHANGED vars /\ ~Expire
    BY DEF vars, Expire, InClients, InReads, InWrites,
           ClientCache!Expire, ReadCache!Expire, WriteCache!Expire
<1> QED
    BY <1>4, <1>5, OthersStay DEF Next, BeginGet, BeginRefresh

LEMMA CurrentStep ==
    ASSUME IInv, [Next]_vars, NEW t \in Threads, Answers(t, "client")
    PROVE  call'[t].value.token = token[Cell[task[t].config]]
<1> USE DEF InClients, InReads, InWrites
<1>1. /\ IInv /\ ThreadsOK /\ StepOK(t) /\ GuardOK(t) /\ ClientsMatchTheirKeys
      /\ task \in [Threads -> Task] /\ call \in [Threads -> CallOf(ClientKey \cup Tokens)]
    BY DEF IInv, ThreadsOK
<1>2. /\ task[t].op = "client" /\ call[t].at # "idle" /\ call'[t].outcome = "ok"
      /\ task'[t].step = "idle"
    BY DEF Answers
<1>3. call[t].at \in ClientCache!Phases
    BY <1>1 DEF CallOf
<1>4. task[t].step \notin {"idle", "refresh"}
    BY <1>1, <1>2, <1>3 DEF StepOK, Clearing, ClientCache!Phases
<1>5. Proceed(t) \/ Create(t)
    BY <1>1, <1>2, <1>4, OwnStep
<1>6. CASE Cached(t)
    <2>1. /\ call'[t] = ClientCache!Idle("ok", clients[call[t].key].value)
          /\ clients[call[t].key] # None
          /\ call[t].at = "get" /\ task[t].step = "lookup"
        BY <1>1, <1>2, <1>6 DEF Cached, KekOps, ClientCache!Hit, ClientCache!IsLive
    <2>2. call[t].key = ClientKeyOf(t) /\ call[t].key \in ClientKey
        BY <1>1, <1>2, <2>1, KeyTypes DEF StepOK, KeyOf, Getting
    <2>3. call'[t].value.token = task[t].token
        BY <1>1, <2>1, <2>2 DEF ClientsMatchTheirKeys, ClientKeyOf, ClientCache!Idle
    <2> QED
        BY <1>1, <1>2, <2>1, <2>3 DEF GuardOK, Getting
<1>7. ASSUME NEW live \in BOOLEAN, Created(t, live)
      PROVE  call'[t].value.token = token[Cell[task[t].config]]
    <2>1. call'[t] = ClientCache!Idle("ok", MadeBy(t)) /\ task[t].step = "build"
        BY <1>1, <1>2, <1>7 DEF Created, ClientCache!CreateOk
    <2> QED
        BY <1>1, <1>2, <2>1 DEF GuardOK, Getting, MadeBy, ClientCache!Idle
<1>8. CASE Refresh(t)
    BY <1>4, <1>8 DEF Refresh
<1>9. CASE NotDue(t) \/ ReadToken(t) \/ FactoryReadsToken(t)
    <2>1. task[t] \in Task
        BY <1>1
    <2>2. task'[t].step \in {"reads", "writes", "token", "lookup", "build"}
        BY <1>1, <1>9, <2>1 DEF NotDue, ReadToken, FactoryReadsToken, MoveTo, AfterClearing,
           Clearing, Task
    <2> QED
        BY <1>2, <2>2
<1>10. CASE StartClear(t) \/ LookUp(t)
    <2>1. task' = task
        BY <1>10 DEF StartClear, LookUp, ClientCache!StartClear, ReadCache!StartClear,
           WriteCache!StartClear, ClientCache!StartGet, ReadCache!StartGet, WriteCache!StartGet
    <2> QED
        BY <1>2, <1>4, <2>1
<1>11. CASE Missing(t)
    <2>1. \E step \in {"factory", "build"} : task' = [task EXCEPT ![t].step = step]
        BY <1>11 DEF Missing, MoveTo
    <2>2. task'[t].step \in {"factory", "build"}
        BY <1>1, <2>1 DEF Task
    <2> QED
        BY <1>2, <2>2
<1>12. CASE Sweep(t)
    <2>1. task[t].step \in Clearing /\ task' = [task EXCEPT ![t].step = AfterClearing(task[t].step)]
        BY <1>12 DEF Sweep, MoveTo, Clearing
    <2>2. task[t] \in Task /\ AfterClearing(task[t].step) \in {"reads", "writes", "token"}
        BY <1>1, <2>1 DEF AfterClearing, Clearing
    <2>3. task'[t].step = AfterClearing(task[t].step)
        BY <1>1, <2>1, <2>2 DEF Task
    <2> QED
        BY <1>2, <2>2, <2>3
<1>13. CASE Abort(t) \/ CreationFails(t) \/ CreationPanics(t)
    <2>1. \E outcome \in {"failed", "panicked"} :
              call' = [call EXCEPT ![t] = ClientCache!Idle(outcome, None)]
        BY <1>13, Alike DEF Abort, CreationFails, CreationPanics,
           ClientCache!Reject, ReadCache!Reject, WriteCache!Reject, ClientCache!CreateErr,
           ClientCache!CreatePanic, ReadCache!CreatePanic, WriteCache!CreatePanic
    <2> QED
        BY <1>1, <1>2, <2>1 DEF ClientCache!Idle
<1> QED
    BY <1>5, <1>6, <1>7, <1>8, <1>9, <1>10, <1>11, <1>12, <1>13 DEF Proceed, Create

\* Who does not clear comes to a mutex once, that of its own cache.
LEMMA PanicStep ==
    ASSUME IInv, [Next]_vars, NEW t \in Threads, task[t].op \in KekOps, ~task[t].cleans,
           call[t].at # "idle", call'[t].outcome = "panicked"
    PROVE  IF task[t].op = "read" THEN readsPoisoned ELSE writesPoisoned
<1> USE DEF InClients, InReads, InWrites, KekOps
<1>1. /\ StepOK(t)
      /\ task \in [Threads -> Task] /\ call \in [Threads -> CallOf(ClientKey \cup Tokens)]
    BY DEF IInv, ThreadsOK
<1>2. call[t].at \in ClientCache!Phases /\ call[t].outcome = "none"
    BY <1>1 DEF CallOf, StepOK
<1>3. task[t].step \in {"lookup", "build"}
    BY <1>1, <1>2 DEF StepOK, Clearing, ClientCache!Phases
<1>4. call'[t] # call[t]
    BY <1>2
<1>5. Proceed(t) \/ Create(t)
    BY <1>1, <1>4, OwnStep
<1>6. CASE Abort(t)
    BY <1>3, <1>6 DEF Abort, Uses, ReadCache!Reject, WriteCache!Reject
<1>7. CASE CreationFails(t) \/ CreationPanics(t)
    BY <1>7 DEF CreationFails, CreationPanics
<1>8. CASE Cached(t) \/ \E live \in BOOLEAN : Created(t, live)
    <2>1. \E value : call' = [call EXCEPT ![t] = ClientCache!Idle("ok", value)]
        BY <1>8, Alike DEF Cached, Created, ClientCache!Hit, ReadCache!Hit, WriteCache!Hit,
           ClientCache!CreateOk, ReadCache!CreateOk, WriteCache!CreateOk
    <2> QED
        BY <1>1, <2>1 DEF ClientCache!Idle
<1>9. CASE LookUp(t) \/ Missing(t)
    <2>1. \E at, key : call' = [call EXCEPT ![t] = ClientCache!Busy(at, key)]
        BY <1>9, Alike DEF LookUp, Missing, ClientCache!StartGet, ReadCache!StartGet,
           WriteCache!StartGet, ClientCache!Miss, ReadCache!Miss, WriteCache!Miss
    <2> QED
        BY <1>1, <2>1 DEF ClientCache!Busy
<1>10. CASE Refresh(t) \/ NotDue(t) \/ ReadToken(t) \/ FactoryReadsToken(t)
    BY <1>4, <1>10 DEF Refresh, NotDue, ReadToken, FactoryReadsToken
<1>11. CASE StartClear(t) \/ Sweep(t)
    BY <1>3, <1>11 DEF StartClear, Sweep
<1> QED
    BY <1>5, <1>6, <1>7, <1>8, <1>9, <1>10, <1>11 DEF Proceed, Create

(***************************************************************************)
(* The theorems.                                                           *)
(***************************************************************************)
LEMMA TypeLemma == IInv => TypeOK
<1> SUFFICES ASSUME IInv PROVE TypeOK
    OBVIOUS
<1>1. ASSUME NEW t \in Threads
      PROVE  \/ task[t].op = "client" /\ call[t] \in ClientCache!Call
             \/ task[t].op \in KekOps /\ call[t] \in ReadCache!Call
             \/ task[t].op \in {None, "refresh"} /\ call[t].at = "idle"
             \/ task[t].step \in {"clients", "reads", "writes"}
                  /\ call[t].at \in {"idle", "clear"}
    <2>1. /\ StepOK(t) /\ task[t] \in Task /\ call[t] \in CallOf(ClientKey \cup Tokens)
          /\ ThreadsOK
        BY DEF IInv, ThreadsOK
    <2>2. call[t].at \in {"get", "create"} => task[t].step \in Getting
        BY <2>1 DEF StepOK, Getting
    <2>3. /\ task[t].op = "client" => call[t].key \in ClientKey \cup {None}
          /\ task[t].op \in KekOps => call[t].key \in KekCacheKey \cup {None}
        BY <2>1, <2>2, KeyTypes DEF StepOK, CallOf, KekOps, ClientCache!Phases
    <2>4. /\ task[t].op = "client" => call[t] \in ClientCache!Call
          /\ task[t].op \in KekOps => call[t] \in ReadCache!Call
        BY <2>1, <2>3 DEF CallOf, ClientCache!Call, ReadCache!Call, ClientCache!Phases,
           ReadCache!Phases, ClientCache!Outcomes, ReadCache!Outcomes
    <2>5. task[t].op \in {None, "client", "refresh"} \cup KekOps
        BY <2>1 DEF Task, Ops
    <2>6. task[t].op \in {None, "refresh"} \ {"client", "read", "write"} => call[t].at = "idle"
        BY <2>1 DEF StepOK, GetOps, KekOps, CallOf, ClientCache!Phases, Clearing
    <2> QED
        BY <2>4, <2>5, <2>6 DEF KekOps
<1> QED
    BY <1>1 DEF IInv, CachesOK, ThreadsOK, MadeOK, TypeOK

\* The invariant holds of every behaviour.
THEOREM Invariance == Spec => []IInv
BY InitInv, NextInv, PTL DEF Spec

\* The caches, the token and the calls keep their types.
THEOREM TypeCorrect == Spec => []TypeOK
BY Invariance, TypeLemma, PTL

\* The comment at kms_manager.rs:52: no order of refreshes and creations files a
\* client under another token or another instance than it was made with.
THEOREM ClientsMatch == Spec => []ClientsMatchTheirKeys
<1>1. IInv => ClientsMatchTheirKeys
    BY DEF IInv
<1> QED
    BY <1>1, Invariance, PTL

\* What get_client returns was made with the token in force when it returns, as the
\* doc of refresh_key_access_token has it (kms/mod.rs:70).
THEOREM ClientsCurrent == Spec => ClientIsCurrent
<1>1. IInv /\ [Next]_vars =>
          [\A t \in Threads : Answers(t, "client") =>
              call'[t].value.token = token[Cell[task[t].config]]]_vars
    BY CurrentStep
<1> QED
    BY <1>1, Invariance, PTL DEF Spec, ClientIsCurrent

\* A panic of a client factory stays away from the KEK calls of those who do not
\* clear the caches (kms_manager.rs:95).
THEOREM Contained == Spec => PanicsContained
<1>1. IInv /\ [Next]_vars =>
          [\A t \in Threads :
              /\ task[t].op \in KekOps /\ ~task[t].cleans
              /\ call[t].at # "idle" /\ call'[t].outcome = "panicked"
              => IF task[t].op = "read" THEN readsPoisoned ELSE writesPoisoned]_vars
    BY PanicStep
<1> QED
    BY <1>1, Invariance, PTL DEF Spec, PanicsContained

(***************************************************************************)
(* Who waits for whom.                                                     *)
(***************************************************************************)
\* Inside the mutex of a cache is a thread that makes something for it.
MakesClient(t) == task[t].op = "client" /\ task[t].step \in {"factory", "build"}
MakesKekCache(t, op) == task[t].op = op /\ task[t].step = "build"

HoldersOK ==
    /\ clientsHolder # None => MakesClient(clientsHolder)
    /\ readsHolder # None => MakesKekCache(readsHolder, "read")
    /\ writesHolder # None => MakesKekCache(writesHolder, "write")

\* After a step of a thread each mutex has whom it had, nobody, or this thread in it.
LEMMA HoldersStep ==
    ASSUME CachesOK, HoldersOK, NEW t \in Threads,
           \A s \in Threads \ {t} : task'[s] = task[s],
           \/ clientsHolder' = clientsHolder /\ (MakesClient(t) => MakesClient(t)')
           \/ clientsHolder' = None
           \/ clientsHolder' = t /\ MakesClient(t)',
           \/ readsHolder' = readsHolder /\ ~MakesKekCache(t, "read")
           \/ readsHolder' = None
           \/ readsHolder' = t /\ MakesKekCache(t, "read")',
           \/ writesHolder' = writesHolder /\ ~MakesKekCache(t, "write")
           \/ writesHolder' = None
           \/ writesHolder' = t /\ MakesKekCache(t, "write")'
    PROVE  HoldersOK'
BY DEF HoldersOK, CachesOK, MakesClient, MakesKekCache

LEMMA HoldersInit == Init => HoldersOK
BY DEF Init, HoldersOK, ClientCache!LCInit, ReadCache!LCInit, WriteCache!LCInit

\* Only a miss puts a thread into a mutex, and only the end of what is made there lets
\* it out.
LEMMA HoldersInv ==
    ASSUME IInv, HoldersOK, [Next]_vars
    PROVE  HoldersOK'
<1> USE DEF InClients, InReads, InWrites, clientVars, readVars, writeVars
<1>1. CachesOK /\ task \in [Threads -> Task] /\ \A t \in Threads : StepOK(t)
    BY DEF IInv, ThreadsOK
<1>2. ASSUME NEW t \in Threads, task[t].step \notin {"factory", "build"},
             \A s \in Threads \ {t} : task'[s] = task[s],
             UNCHANGED <<clientsHolder, readsHolder, writesHolder>>
      PROVE  HoldersOK'
    BY <1>1, <1>2, HoldersStep DEF MakesClient, MakesKekCache
<1>3. ASSUME NEW t \in Threads, NEW op, NEW c, NEW cleans, NEW first, NEW tok,
             Begin(t, op, c, cleans, first, tok)
      PROVE  HoldersOK'
    BY <1>1, <1>2, <1>3 DEF Begin
<1>4. ASSUME NEW t \in Threads, Refresh(t) \/ NotDue(t) \/ ReadToken(t) PROVE HoldersOK'
    BY <1>1, <1>2, <1>4, OthersStay DEF Refresh, NotDue, ReadToken, Clearing, Proceed
<1>5. ASSUME NEW t \in Threads, StartClear(t) \/ Sweep(t) PROVE HoldersOK'
    <2>1. UNCHANGED <<clientsHolder, readsHolder, writesHolder>>
        BY <1>5 DEF StartClear, Sweep, ClientCache!StartClear, ReadCache!StartClear,
           WriteCache!StartClear, ClientCache!Sweep, ReadCache!Sweep, WriteCache!Sweep
    <2> QED
        BY <1>2, <1>5, <2>1, OthersStay DEF StartClear, Sweep, Proceed
<1>6. ASSUME NEW t \in Threads, Abort(t) \/ LookUp(t) \/ Cached(t) PROVE HoldersOK'
    <2>1. UNCHANGED <<clientsHolder, readsHolder, writesHolder>>
        BY <1>6 DEF Abort, LookUp, Cached,
           ClientCache!Reject, ReadCache!Reject, WriteCache!Reject,
           ClientCache!StartGet, ReadCache!StartGet, WriteCache!StartGet,
           ClientCache!Hit, ReadCache!Hit, WriteCache!Hit
    <2> QED
        BY <1>2, <1>6, <2>1, OthersStay DEF Abort, Uses, LookUp, Cached, Proceed
<1>7. ASSUME NEW t \in Threads, Missing(t) PROVE HoldersOK'
    <2>1. \A s \in Threads \ {t} : task'[s] = task[s]
        BY <1>7, OthersStay DEF Proceed
    <2>2. task[t].step = "lookup" /\ task'[t].op = task[t].op
        BY <1>1, <1>7 DEF Missing, MoveTo, Task
    <2>3. CASE task[t].op = "client"
        <3>1. clientsHolder' = t /\ UNCHANGED <<readsHolder, writesHolder>>
            BY <1>7, <2>3 DEF Missing, ClientCache!Miss
        <3>2. task'[t].step = "factory"
            BY <1>1, <1>7, <2>3 DEF Missing, MoveTo, Task
        <3> QED
            BY <1>1, <2>1, <2>2, <2>3, <3>1, <3>2, HoldersStep DEF MakesClient, MakesKekCache
    <2>4. CASE task[t].op = "read"
        <3>1. readsHolder' = t /\ UNCHANGED <<clientsHolder, writesHolder>>
            BY <1>7, <2>4 DEF Missing, ReadCache!Miss
        <3>2. task'[t].step = "build"
            BY <1>1, <1>7, <2>4 DEF Missing, MoveTo, Task
        <3> QED
            BY <1>1, <2>1, <2>2, <2>4, <3>1, <3>2, HoldersStep DEF MakesClient, MakesKekCache
    <2>5. CASE task[t].op = "write"
        <3>1. writesHolder' = t /\ UNCHANGED <<clientsHolder, readsHolder>>
            BY <1>7, <2>5 DEF Missing, WriteCache!Miss
        <3>2. task'[t].step = "build"
            BY <1>1, <1>7, <2>5 DEF Missing, MoveTo, Task
        <3> QED
            BY <1>1, <2>1, <2>2, <2>5, <3>1, <3>2, HoldersStep DEF MakesClient, MakesKekCache
    <2> QED
        BY <1>7, <2>3, <2>4, <2>5 DEF Missing
<1>8. ASSUME NEW t \in Threads, FactoryReadsToken(t) PROVE HoldersOK'
    <2>1. /\ \A s \in Threads \ {t} : task'[s] = task[s]
          /\ UNCHANGED <<clientsHolder, readsHolder, writesHolder>>
        BY <1>8, OthersStay DEF FactoryReadsToken, Create
    <2>2. /\ task[t].step = "factory" /\ task'[t].step = "build"
          /\ task'[t].op = task[t].op
        BY <1>1, <1>8 DEF FactoryReadsToken, Task
    <2> QED
        BY <1>1, <2>1, <2>2, HoldersStep DEF MakesClient, MakesKekCache
<1>9. ASSUME NEW t \in Threads,
             (\E live \in BOOLEAN : Created(t, live)) \/ CreationFails(t) \/ CreationPanics(t)
      PROVE  HoldersOK'
    <2>1. \A s \in Threads \ {t} : task'[s] = task[s]
        BY <1>9, OthersStay DEF Create
    <2>2. \/ /\ task[t].op = "client" /\ clientsHolder' = None
             /\ UNCHANGED <<readsHolder, writesHolder>>
          \/ /\ task[t].op = "read" /\ readsHolder' = None
             /\ UNCHANGED <<clientsHolder, writesHolder>>
          \/ /\ task[t].op = "write" /\ writesHolder' = None
             /\ UNCHANGED <<clientsHolder, readsHolder>>
        BY <1>9 DEF Created, CreationFails, CreationPanics, ClientCache!CreateOk,
           ReadCache!CreateOk, WriteCache!CreateOk, ClientCache!CreateErr,
           ClientCache!CreatePanic, ReadCache!CreatePanic, WriteCache!CreatePanic
    <2> QED
        BY <1>1, <2>1, <2>2, HoldersStep DEF MakesClient, MakesKekCache
<1>10. CASE Expire
    BY <1>10 DEF Expire, HoldersOK, MakesClient, MakesKekCache,
       ClientCache!Expire, ReadCache!Expire, WriteCache!Expire
<1>11. CASE UNCHANGED vars
    BY <1>11 DEF vars, HoldersOK, MakesClient, MakesKekCache
<1> QED
    BY <1>3, <1>4, <1>5, <1>6, <1>7, <1>8, <1>9, <1>10, <1>11
    DEF Next, BeginGet, BeginRefresh, Proceed, Create

\* A refresh waits for a get_client at most, a call that wants a mutex for one that makes
\* something for its cache, and that one for nobody.
LEMMA WaitingEnds ==
    ASSUME IInv, HoldersOK
    PROVE  NoCallIsStuck
<1> SUFFICES ASSUME \A cell \in Cells : CanRead(cell),
                    NEW t \in Threads, task[t].step # "idle", ~CanGoOn(t)
             PROVE  \E s \in Threads :
                        /\ CanGoOn(s) /\ task[s].step \in {"lookup", "factory", "build"}
                        /\ task[t].op \in KekOps /\ ~task[t].cleans =>
                              task[s].op = task[t].op /\ task[s].step = "build"
    BY DEF NoCallIsStuck
<1>1. /\ task \in [Threads -> Task] /\ \A s \in Threads : StepOK(s)
      /\ clientsHolder \in Threads \cup {None} /\ readsHolder \in Threads \cup {None}
      /\ writesHolder \in Threads \cup {None}
    BY DEF IInv, ThreadsOK, CachesOK
<1>2. ASSUME NEW s \in Threads, task[s].step \in {"token", "factory", "build"}
      PROVE  CanGoOn(s)
    <2>1. task[s].step # "build" => CanRead(Cell[task[s].config])
        BY <1>1, <1>2, ConfigsAssumption DEF StepOK
    <2> QED
        BY <1>2, <2>1 DEF CanGoOn, Clearing
<1>3. /\ clientsHolder # None => CanGoOn(clientsHolder)
      /\ readsHolder # None => CanGoOn(readsHolder)
      /\ writesHolder # None => CanGoOn(writesHolder)
    BY <1>1, <1>2 DEF HoldersOK, MakesClient, MakesKekCache
<1>4. CASE task[t].step = "refresh"
    <2>1. task[t].op \notin KekOps
        BY <1>1, <1>4 DEF StepOK, KekOps
    <2>2. PICK q \in Guards(Cell[task[t].config]) : TRUE
        BY <1>4 DEF CanGoOn, Clearing
    <2>3. /\ q \in Threads /\ task[q].op = "client"
          /\ task[q].step \in {"lookup", "factory", "build"}
        BY <2>2 DEF Guards
    <2>4. CASE CanGoOn(q)
        BY <2>1, <2>3, <2>4
    <2>5. CASE ~CanGoOn(q)
        <3>1. task[q].step = "lookup" /\ ~MutexFree(q)
            BY <1>2, <2>3, <2>5 DEF CanGoOn
        <3>2. clientsHolder # None
            BY <2>3, <3>1 DEF MutexFree, Uses
        <3> QED
            BY <1>1, <1>3, <2>1, <3>2 DEF HoldersOK, MakesClient
    <2> QED
        BY <2>4, <2>5
<1>5. CASE task[t].step \in Clearing \cup {"lookup"}
    <2>1. ~MutexFree(t)
        BY <1>5 DEF CanGoOn, Clearing
    <2>2. CASE clientsHolder # None /\ Uses(t, "clients", "client")
        <3>1. task[t].op \in KekOps => task[t].cleans
            BY <1>1, <2>2 DEF Uses, StepOK, Clearing, KekOps
        <3> QED
            BY <1>1, <1>3, <2>2, <3>1 DEF HoldersOK, MakesClient
    <2>3. CASE readsHolder # None /\ Uses(t, "reads", "read")
        <3>1. task[t].op = "read" \/ task[t].cleans
            BY <1>1, <2>3 DEF Uses, StepOK, Clearing
        <3> QED
            BY <1>1, <1>3, <2>3, <3>1 DEF HoldersOK, MakesKekCache
    <2>4. CASE writesHolder # None /\ Uses(t, "writes", "write")
        <3>1. task[t].op = "write" \/ task[t].cleans
            BY <1>1, <2>4 DEF Uses, StepOK, Clearing
        <3> QED
            BY <1>1, <1>3, <2>4, <3>1 DEF HoldersOK, MakesKekCache
    <2> QED
        BY <2>1, <2>2, <2>3, <2>4 DEF MutexFree
<1>6. task[t].step \in {"refresh", "lookup"} \cup Clearing
    <2>1. task[t].step \in Steps
        BY <1>1 DEF Task
    <2> QED
        BY <1>2, <2>1 DEF Steps, Clearing
<1> QED
    BY <1>4, <1>5, <1>6

\* Unless a refresh keeps readers of the token out, no circle of calls waits for the
\* token's lock and the mutexes of the caches (kms_manager.rs:54), and KEK calls that
\* do not clear the caches never wait for the KMS (kms_manager.rs:95).
THEOREM NobodyStuck == Spec => []NoCallIsStuck
<1>1. Spec => []HoldersOK
    BY Invariance, HoldersInit, HoldersInv, PTL DEF Spec
<1> QED
    BY <1>1, Invariance, WaitingEnds, PTL
===============================================================================
