----------------------------- MODULE KmsConnection -----------------------------
(***************************************************************************)
(* KmsConnectionConfig (kms/mod.rs) and how the library shares it.         *)
(*                                                                         *)
(* The application builds configs and passes them on in Arcs.  An          *)
(* unwrapper keeps the Arc it was made with until it has to change the     *)
(* config; Arc::make_mut then gives it a copy, unless no one else has the  *)
(* Arc.  A copy shares the cell of the access token, an                    *)
(* Arc<RwLock<String>>, with its original, so that a refresh is seen       *)
(* through all of them.                                                    *)
(*                                                                         *)
(* custom_kms_conf is copied and passed on and is left out.                *)
(***************************************************************************)
EXTENDS KeyMaterial, TLC

CONSTANTS
    Unwrappers, \* FileDecryptionProperties, with their KeyUnwrapper
    Configs,    \* the configs the application builds
    Built,      \* the builder each of them is built with
    Kept,       \* the configs whose Arc the application keeps; the others it gives away
    Tokens      \* access tokens

VARIABLES
    arc,    \* the config each unwrapper points to, None before it is made
    source, \* history: the application's config it was made with
    heap,   \* the configs: the application's, and copies named by their owner
    token   \* the token in each cell, named by the config it was built with

configVars == <<arc, source, heap, token>>

(***************************************************************************)
(* KmsConnectionConfigBuilder.                                             *)
(***************************************************************************)
NewBuilder ==
    [kms_instance_id |-> Unset, kms_instance_url |-> Unset, key_access_token |-> Default]

SetKmsInstanceId(b, id) == [b EXCEPT !.kms_instance_id = id]
SetKmsInstanceUrl(b, url) == [b EXCEPT !.kms_instance_url = url]
SetKeyAccessToken(b, tok) == [b EXCEPT !.key_access_token = tok]

\* build() makes a cell for the token.
Build(a) ==
    [kms_instance_id |-> Built[a].kms_instance_id,
     kms_instance_url |-> Built[a].kms_instance_url,
     key_access_token |-> a]

ASSUME ConnectionAssumption ==
    /\ Kept \subseteq Configs
    /\ Unwrappers \cap Configs = {} /\ None \notin Unwrappers \cup Configs
    /\ \A a \in Configs : Built[a].key_access_token \in Tokens

Addresses == Configs \cup Unwrappers

ConnectionTypeOK ==
    /\ arc \in [Unwrappers -> Addresses \cup {None}]
    /\ source \in [Unwrappers -> Configs \cup {None}]
    /\ DOMAIN heap = Addresses
    /\ \A a \in Addresses : heap[a] # None => heap[a].key_access_token \in Configs
    /\ token \in [Configs -> Tokens]

ConnectionInit ==
    /\ arc = [u \in Unwrappers |-> None]
    /\ source = [u \in Unwrappers |-> None]
    /\ heap = [a \in Addresses |-> IF a \in Configs THEN Build(a) ELSE None]
    /\ token = [a \in Configs |-> Built[a].key_access_token]

(***************************************************************************)
(* Arcs.                                                                   *)
(***************************************************************************)
Conf(u) == heap[arc[u]]

\* An Arc is cloned for each unwrapper, or given to a single one.
PassOn(u, a) ==
    /\ arc[u] = None
    /\ a \in Kept \/ \A v \in Unwrappers : source[v] # a
    /\ arc' = [arc EXCEPT ![u] = a]
    /\ source' = [source EXCEPT ![u] = a]
    /\ UNCHANGED <<heap, token>>

Shared(u) == arc[u] \in Kept \/ \E v \in Unwrappers \ {u} : arc[v] = arc[u]

\* As a config behind a lock of its own that the unwrapper shares with the
\* application.
MakeMutInPlace(u, new) ==
    /\ heap' = [heap EXCEPT ![arc[u]] = new]
    /\ UNCHANGED <<arc, source, token>>

\* As a clone() that copies the token too, to a cell of the copy's own.
MakeMutDeep(u, new) ==
    LET a == IF Shared(u) THEN u ELSE arc[u]
    IN  /\ arc' = [arc EXCEPT ![u] = a]
        /\ heap' = [heap EXCEPT ![a] = [new EXCEPT !.key_access_token = a]]
        /\ token' = (a :> token[new.key_access_token]) @@ token
        /\ UNCHANGED source

\* Arc::make_mut, followed by changes to the config that make it new.
MakeMut(u, new) ==
    LET a == IF Shared(u) THEN u ELSE arc[u]
    IN  /\ arc' = [arc EXCEPT ![u] = a]
        /\ heap' = [heap EXCEPT ![a] = new]
        /\ UNCHANGED <<source, token>>

(***************************************************************************)
(* The token.                                                              *)
(***************************************************************************)
KeyAccessToken(u) == token[Conf(u).key_access_token]

\* refresh_key_access_token of a config the application still has.
RefreshKeyAccessToken(a, tok) ==
    /\ a \in Kept
    /\ token' = [token EXCEPT ![heap[a].key_access_token] = tok]
    /\ UNCHANGED <<arc, source, heap>>

(***************************************************************************)
(* Safety.                                                                 *)
(***************************************************************************)
\* What the application sees of its own config never changes: an unwrapper that
\* completes the config from a footer does so for itself (Arc::make_mut at
\* key_unwrapper.rs:94).
CallersConfigUntouched == [][\A a \in Kept : heap'[a] = heap[a]]_heap

\* A refresh of the application's config reaches every unwrapper made with it, also
\* those that completed the config from a footer since (the token is shared by
\* clones, kms/mod.rs:34): the KMS is asked with the token now in force.
RefreshReachesUnwrappers ==
    \A u \in Unwrappers : arc[u] # None => KeyAccessToken(u) = token[source[u]]
================================================================================
