---------------------------- MODULE MCAsyncBridge ----------------------------
(* Small instances of AsyncBridge for TLC. *)
EXTENDS AsyncBridge, TLC

CONSTANTS c1, c2, c3, conf

\* Two writers that share a KEK, and a reader of a singly wrapped key.
MCOp == (c1 :> "write" @@ c2 :> "write" @@ c3 :> "read")
MCMaster == (c1 :> "kf" @@ c2 :> "kf" @@ c3 :> "kc1")
MCKek == (c1 :> "kf" @@ c2 :> "kf" @@ c3 :> None)
MCConfig == [c \in {c1, c2, c3} |-> conf]
==============================================================================
