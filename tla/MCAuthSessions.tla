--------------------------- MODULE MCAuthSessions ---------------------------
(* Model values for checking AuthSessions with TLC: ids are random, so      *)
(* nothing tells one from another.                                          *)
EXTENDS AuthSessions, TLC

(* Bound: a refresh is given up or a revocation misses a session, not both, *)
(* and at most one session expires.                                         *)
OneMishap == ~(lost /\ slipped) /\ expired # Families

Ids == Permutations(Families) \cup Permutations(Tokens) \cup Permutations(Requests)
=============================================================================
