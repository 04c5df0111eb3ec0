--------------------------- MODULE MCCoinPurchase ---------------------------
EXTENDS CoinPurchase, TLC

(* A plan of the provider, one with the coupon for the same account, and one
   that an administrator fulfils. *)
MCForms ==
  {[provider |-> "lunakey", account |-> "a", price |-> 2, coupon |-> FALSE],
   [provider |-> "lunakey", account |-> "a", price |-> 1, coupon |-> TRUE],
   [provider |-> "legacy_locket", account |-> None, price |-> 1, coupon |-> FALSE]}

Interchangeable == Permutations(Handlers) \cup Permutations(Keys)
=============================================================================
