---------------------------- MODULE MCExpiringCache ----------------------------
(* Small instances of ExpiringCache for TLC. *)
EXTENDS ExpiringCache

\* No expiration, one at once, and one later, which overflows at the last instant.
MCLifetimes == {None, 0, 1}
================================================================================
