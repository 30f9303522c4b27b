----------------------------- MODULE MCKmsManager -----------------------------
(* Small instances of KmsManager for TLC. *)
EXTENDS KmsManager, TLC

CONSTANTS A, B, shared, idA, idB, tok1

\* Two configs for two KMS instances that share a token cell, as clones do.
Clones == [c \in {A, B} |-> shared]
OwnId == [c \in {A, B} |-> IF c = A THEN idA ELSE idB]
OneConfig == [c \in {A} |-> shared]
OneId == [c \in {A} |-> idA]
First == [c \in {shared} |-> tok1]

Symmetry == Permutations(Threads)
================================================================================
