------------------------------ MODULE KeyMaterial ------------------------------
(***************************************************************************)
(* The key material stored in a Parquet file for each of its data          *)
(* encryption keys (key_material.rs), and what can be done with the keys   *)
(* in it: AES-GCM with a key encryption key (key_encryption.rs), and a     *)
(* KMS, which is external to the repository.                               *)
(*                                                                         *)
(* Keys are symbols and so are the ciphertexts made from them: a           *)
(* ciphertext records what went into it, and gives it back only to whoever *)
(* has the key and the additional data it was made with.                   *)
(***************************************************************************)
CONSTANTS
    None,    \* Option::None
    Unset,   \* the empty string, an id or URL that is not configured
    Default, \* the string "DEFAULT"
    Failed   \* a Result that is Err

ASSUME MarkersAssumption == Unset # Default /\ None \notin {Unset, Default, Failed}

(***************************************************************************)
(* key_encryption.rs: the KEK id is the additional authenticated data.     *)
(***************************************************************************)
EncryptEncryptionKey(dek, kekId, kek) == [dek |-> dek, aad |-> kekId, under |-> kek]

DecryptEncryptionKey(wrapped, kekId, kek) ==
    IF wrapped.aad = kekId /\ wrapped.under = kek THEN wrapped.dek ELSE Failed

(***************************************************************************)
(* KeyMaterialBuilder and KeyMaterial.  Serialization to JSON and back     *)
(* keeps every field, and key_material_type, internal_storage and          *)
(* key_reference are the same in all the material the builder makes.       *)
(***************************************************************************)
ForFooterKey(id, url) ==
    [is_footer_key |-> TRUE, kms_instance_id |-> id, kms_instance_url |-> url]
ForColumnKey ==
    [is_footer_key |-> FALSE, kms_instance_id |-> None, kms_instance_url |-> None]

WithSingleWrappedKey(place, master, wrappedDek) ==
    [place |-> place, double_wrapping |-> FALSE, master_key_id |-> master,
     key_encryption_key_id |-> None, wrapped_kek |-> None, wrapped_dek |-> wrappedDek]
WithDoubleWrappedKey(place, master, kekId, wrappedKek, wrappedDek) ==
    [place |-> place, double_wrapping |-> TRUE, master_key_id |-> master,
     key_encryption_key_id |-> kekId, wrapped_kek |-> wrappedKek, wrapped_dek |-> wrappedDek]

(***************************************************************************)
(* A KMS: master keys belong to an instance, and never leave it.  An       *)
(* unset id and the id "DEFAULT" both name the instance a client reaches   *)
(* when it is not told which.                                              *)
(***************************************************************************)
Instance(id) == IF id = Unset THEN Default ELSE id

WrapKey(id, master, key) == [key |-> key, by |-> Instance(id), master |-> master]

UnwrapKey(id, master, wrapped) ==
    IF wrapped.by = Instance(id) /\ wrapped.master = master THEN wrapped.key ELSE Failed

(***************************************************************************)
(* What the reader of files, functions from keys to key material, relies   *)
(* on: a key was wrapped in the instance that the footer names, and is     *)
(* there in full; a KEK id stands for one KEK.                             *)
(***************************************************************************)
WellWritten(files, footer) ==
    /\ \A f \in files : \A key \in DOMAIN f :
          LET m == f[key]
              byKms == IF m.double_wrapping THEN m.wrapped_kek ELSE m.wrapped_dek
          IN  /\ m.place.is_footer_key <=> key = footer
              /\ byKms.by = Instance(f[footer].place.kms_instance_id)
              /\ byKms.master = m.master_key_id
              /\ byKms.key \notin {None, Failed}
              /\ m.double_wrapping =>
                    /\ m.wrapped_dek.aad = m.key_encryption_key_id
                    /\ m.wrapped_dek.under = m.wrapped_kek.key
                    /\ m.wrapped_dek.dek # Failed
    /\ \A f, g \in files : \A k \in DOMAIN f, l \in DOMAIN g :
          /\ f[k].double_wrapping /\ g[l].double_wrapping
          /\ f[k].key_encryption_key_id = g[l].key_encryption_key_id
          => f[k].wrapped_kek.key = g[l].wrapped_kek.key
================================================================================
