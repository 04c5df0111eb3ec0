\* A transfer that is reported after its payment was renewed.
SPECIFICATION Spec
CONSTANTS
  MaxPayments = 2
  Codes = {c1, c2}
  Transfers = {t1}
  References = {}
  Goods = {"manual_contact"}
  CouponGoods = {}
  CouponLimit = 1
  MaxRequests = 1
  None = None
INVARIANTS PaidHasOrder
