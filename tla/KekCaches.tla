------------------------------- MODULE KekCaches -------------------------------
(***************************************************************************)
(* What the KEK caches promise to those who write and read files, whatever *)
(* the KEKs are filed under: a KEK is made or unwrapped by one user at a   *)
(* time, inside the mutex of the cache, and only when there is none under  *)
(* its name; once it is there it stays, and all get the same.  A user that *)
(* gives up leaves nothing behind.  After a panic inside the mutex nobody  *)
(* gets in again, and nothing is added.                                    *)
(*                                                                         *)
(* KeyWrapper and KeyUnwrapper implement this module, each with a map of   *)
(* its own (KeyEncryptionKeyCache in key_wrapper.rs and key_unwrapper.rs), *)
(* and so do the calls of AsyncBridge.                                     *)
(***************************************************************************)
CONSTANTS
    Caches,   \* KEK caches
    Users,    \* those who need KEKs
    Names,    \* what KEKs are filed under
    KeksFor,  \* the KEKs that are right for each name
    None

VARIABLES
    keks,     \* the KEK under each name in each cache
    holder,   \* the user inside the mutex of each cache, or None
    poisoned  \* the caches whose mutex is poisoned

kcVars == <<keks, holder, poisoned>>

KCInit ==
    /\ keks = [n \in Caches |-> [name \in Names |-> None]]
    /\ holder = [n \in Caches |-> None]
    /\ poisoned = {}

\* A user finds a KEK missing and stays inside; it is in no other cache.
Miss(u, n) ==
    /\ holder[n] = None /\ n \notin poisoned
    /\ \A m \in Caches : holder[m] # u
    /\ \E name \in Names : keks[n][name] = None
    /\ holder' = [holder EXCEPT ![n] = u]
    /\ UNCHANGED <<keks, poisoned>>

Leave(u, n) ==
    /\ holder[n] = u
    /\ holder' = [holder EXCEPT ![n] = None]

Store(u, n, name) ==
    /\ Leave(u, n)
    /\ keks[n][name] = None
    /\ keks'[n][name] \in KeksFor[name]
    /\ keks' = [keks EXCEPT ![n][name] = keks'[n][name]]
    /\ UNCHANGED poisoned

GiveUp(u, n) == Leave(u, n) /\ UNCHANGED <<keks, poisoned>>

Panic(u, n) ==
    /\ Leave(u, n)
    /\ poisoned' = poisoned \cup {n}
    /\ UNCHANGED keks

KCNext ==
    \E u \in Users, n \in Caches :
        \/ Miss(u, n)
        \/ \E name \in Names : Store(u, n, name)
        \/ GiveUp(u, n)
        \/ Panic(u, n)

KCSpec == KCInit /\ [][KCNext]_kcVars
================================================================================
