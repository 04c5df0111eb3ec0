----------------------------- MODULE MCFrontend -----------------------------
EXTENDS Frontend

CONSTANTS p1, p2, p3

(* A provider's plan, a legacy one that depends on the platform, and one that
   is a download. *)
MCCatalog ==
  [p \in Plans |->
     CASE p = p1 -> [provider |-> "lunakey", platforms |-> "ios", ios |-> "auto_activation",
                     android |-> "disabled", renews |-> FALSE]
       [] p = p2 -> [provider |-> "legacy", platforms |-> "all", ios |-> "auto_activation",
                     android |-> "manual_contact", renews |-> FALSE]
       [] p = p3 -> [provider |-> "legacy", platforms |-> "android", ios |-> "disabled",
                     android |-> "apk_download", renews |-> FALSE]]

Bounds(stock, coupons, k, tokens, p, flight) ==
  [stock |-> stock, coupons |-> coupons, keys |-> k, tokens |-> tokens, pays |-> p,
   flight |-> flight]

(* Two purchases one after the other, and so with a coupon, one request at a
   time; one purchase whose code is renewed; one with a coupon whose requests
   overlap; two plans with a name; the provider's plan by transfer. *)
MCLimits ==
  {Bounds({p3}, {}, 2, 0, 1, 2), Bounds({p3}, Coupons, 2, 0, 1, 1),
   Bounds({p3}, {}, 1, 0, 2, 2), Bounds({p3}, Coupons, 1, 0, 1, 2),
   Bounds({p1, p2}, {}, 1, 1, 0, 2), Bounds({p1}, Coupons, 1, 1, 1, 2)}

(* Order 1 is a provider's, for iOS, or a download; order 2 is an administrator's. *)
MCOrderViews ==
  {[i \in Items |-> IF i = 1 THEN view ELSE "manual"] : view \in {"lunakey", "ios", "apk"}}
=============================================================================
