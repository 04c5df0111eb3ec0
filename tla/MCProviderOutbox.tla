-------------------------- MODULE MCProviderOutbox --------------------------
(* Model values and symmetry for checking ProviderOutbox with TLC. *)
EXTENDS ProviderOutbox, TLC

(* Bound: one of the orders is sold, the one for coins or the other. *)
OneSold ==
  \A o, p \in Orders : o # p => order[o] = "none" \/ order[p] = "none"

(* Bound: an order whose payment was renewed sees no restart, and its job   *)
(* one attempt.                                                             *)
RenewedBriefly ==
  \A o \in Orders : superseded[o] # "none" => restarts = 0 /\ job[o].attempts <= 1

OneOrder == OneSold /\ RenewedBriefly

Threads == Permutations(Workers)
=============================================================================
