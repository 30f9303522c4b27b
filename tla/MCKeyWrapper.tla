----------------------------- MODULE MCKeyWrapper -----------------------------
(* Small instances of KeyWrapper for TLC. *)
EXTENDS KeyWrapper, TLC

CONSTANTS w1, w2, w3, kf, kc, x, cell, tok1, idA, idB, urlA

Everyone(value) == [w \in {w1, w2, w3} |-> value]

MCUrl == Everyone(urlA)
MCCell == Everyone(cell)
MCFirst == [c \in {cell} |-> tok1]

\* The first writer's column shares the footer's master key, the second's has its
\* own.  The third wraps singly.
MCFooterMaster == Everyone(kf)
MCColumnMaster == (w1 :> (x :> kf) @@ w2 :> (x :> kc) @@ w3 :> (x :> kf))
MCDoubleWrapping == [w \in {w1, w2, w3} |-> w # w3]

\* No instance is configured, or two.
MCNoId == Everyone(Unset)
MCTwoIds == [w \in {w1, w2, w3} |-> IF w = w1 THEN idA ELSE idB]
================================================================================
