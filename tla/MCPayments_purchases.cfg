\* Two purchases, or one that is renewed: goods of every kind, some with a
\* coupon that can be used once, one transfer, and a reference an admin may type
\* twice; or three top-ups, renewals included, that share two transfer codes.
SPECIFICATION Spec
CONSTANTS
  MaxPayments = 3
  Codes = {c1, c2}
  Transfers = {t1}
  References = {r1}
  Goods = {"wallet_topup", "apk_download"}
  CouponGoods = {"manual_contact", "auto_activation"}
  CouponLimit = 1
  MaxRequests = 1
  None = None
SYMMETRY Codings
CONSTRAINT Varied
INVARIANTS TypeOK OrderPaidFor MoneyAccounted CouponFollowsPayment
INVARIANTS TransferReachesItsPayment RenewedOnce
PROPERTIES PaidIsFinal CouponWithinLimit
