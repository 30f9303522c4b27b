---------------------------- MODULE MCKeyUnwrapper ----------------------------
(* Small instances of KeyUnwrapper for TLC, with files as KeyWrapper makes them. *)
EXTENDS KeyUnwrapper

CONSTANTS r1, r2, r3, u1, u2, a1, a2, fA, fB, fC, x, kf,
          idA, idB, urlA, urlB, tok2

Place(f, key) ==
    IF key # Footer THEN ForColumnKey
    ELSE ForFooterKey(IF f = fB THEN idB ELSE idA,
                      IF f = fB THEN urlB ELSE IF f = fC THEN Unset ELSE urlA)

\* fB is wrapped singly and in another instance.  The other files have a KEK each,
\* with one master key; the footer of fC has no URL.
MCMaterial ==
    [f \in Files |-> [key \in IF f = fA THEN {Footer, x} ELSE {Footer} |->
        IF f = fB
        THEN WithSingleWrappedKey(Place(f, key), kf, WrapKey(idB, kf, <<"dek", f, key>>))
        ELSE WithDoubleWrappedKey(Place(f, key), kf, <<"id", f>>,
                 WrapKey(idA, kf, <<"kek", f>>),
                 EncryptEncryptionKey(<<"dek", f, key>>, <<"id", f>>, <<"kek", f>>))]]

\* The application keeps its default config, and passes on for good one that has a
\* URL.
MCBuilt == (a1 :> NewBuilder @@ a2 :> SetKmsInstanceUrl(NewBuilder, urlA))

\* Two readers share an unwrapper.
MCUses == (r1 :> u1 @@ r2 :> u1 @@ r3 :> u2)
MCMayRead == (r1 :> {fA, fC} @@ r2 :> {fA, fB} @@ r3 :> {fA, fB})
================================================================================
