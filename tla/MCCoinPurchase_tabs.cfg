\* Two keys, two handlers at a time, coins for two orders and a credit.
SPECIFICATION Spec
CONSTANTS
  Keys = {k1, k2}
  Forms <- MCForms
  Handlers = {h1, h2}
  Start = 3
  Adjustments = {1}
  CouponLimit = 1
  MaxOrders = 2
  MaxDeaths = 1
  None = None
SYMMETRY Interchangeable
INVARIANTS TypeOK ChargedOnce
PROPERTY JobKeepsRequest
CHECK_DEADLOCK FALSE
