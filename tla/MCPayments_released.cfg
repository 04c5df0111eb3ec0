\* A transfer in time, reported after its coupon reservation was released.
SPECIFICATION Spec
CONSTANTS
  MaxPayments = 2
  Codes = {c1, c2}
  Transfers = {t1}
  References = {}
  Goods = {}
  CouponGoods = {"manual_contact"}
  CouponLimit = 1
  MaxRequests = 1
  None = None
PROPERTIES ReleasedByOverrideOnly
