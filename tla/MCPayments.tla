----------------------------- MODULE MCPayments -----------------------------
(* Model values and symmetry for checking Payments with TLC. *)
EXTENDS Payments, TLC

(* Bound: two purchases under way are of different kinds, so that two kinds *)
(* meet wherever one could meet itself.                                     *)
TwoKinds ==
  \A o, p \in Payments :
    o # p /\ order[o].status # "none" /\ order[p].status # "none" =>
      order[o].mode # order[p].mode

(* Bound: the codes of top-ups come back into use. *)
TopupsCool ==
  \A p \in Payments : pay[p].cooled => pay[p].purpose = "wallet_topup"

(* Bound: three payments are top-ups, and only transfers are booked on them. *)
ThreeTopups ==
  (\A p \in Payments : Exists(p)) =>
    /\ coinUses = 0
    /\ \A p \in Payments : /\ pay[p].purpose = "wallet_topup"
                           /\ pay[p].bank \in Transfers \cup {None}

Varied == TwoKinds /\ TopupsCool /\ ThreeTopups

Codings == Permutations(Codes)
=============================================================================
