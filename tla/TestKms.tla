------------------------------- MODULE TestKms -------------------------------
(***************************************************************************)
(* The KMS of the repository's tests (test_kms/): a factory that records   *)
(* the configuration of each client it makes and counts the keys its       *)
(* clients wrap and unwrap.  Its asynchronous form (test_kms/async_impl)   *)
(* wraps the same factory, and its futures never wait.                     *)
(*                                                                         *)
(* A wrapped key is the key sealed with the master key, the id of which is *)
(* the additional data; nonces and base64 are left out.                    *)
(***************************************************************************)
EXTENDS Naturals, Sequences

CONSTANT Err \* a Result that is Err

VARIABLE kms

\* The key_map of with_default_keys.
DefaultKeys == {"kf", "kc1", "kc2"}

NewKms == [invocations |-> << >>, keys_wrapped |-> 0, keys_unwrapped |-> 0]

\* What a client is told of its connection; the factory's clients share its counts.
CreateClient(details) == kms' = [kms EXCEPT !.invocations = Append(@, details)]

GetKey(master) == IF master \in DefaultKeys THEN master ELSE Err

\* A key is counted when it was wrapped, not when wrapping was tried.
Wrapped(key, master) ==
    IF GetKey(master) = Err THEN Err ELSE [key |-> key, sealed |-> GetKey(master), aad |-> master]

CountWrap(master) ==
    kms' = IF GetKey(master) = Err THEN kms ELSE [kms EXCEPT !.keys_wrapped = @ + 1]

Unwrapped(wrapped, master) ==
    IF GetKey(master) # Err /\ wrapped.sealed = GetKey(master) /\ wrapped.aad = master
    THEN wrapped.key ELSE Err

CountUnwrap(wrapped, master) ==
    kms' = IF Unwrapped(wrapped, master) = Err THEN kms
           ELSE [kms EXCEPT !.keys_unwrapped = @ + 1]
==============================================================================
