SPECIFICATION FrontendSpec
CONSTANTS
  p1 = p1
  p2 = p2
  p3 = p3
  Plans = {p1, p2, p3}
  Catalog <- MCCatalog
  Limits <- MCLimits
  Names = {n1}
  Coupons = {c1}
  Outcomes = {"paid", "cancelled"}
  None = None
  MaxCalls = 2
  Items = {1, 2}
  MaxOthers = 1
  ProgressOrders = {1, 2}
  MaxStatuses = 3
  OrderViews <- MCOrderViews
  Amounts = {1, 2}
  Images = {1, 2, 3}
  MaxImages = 2
  MaxRequests = 2
  MaxReloads = 1
  ManualOrders = {1}
  TransferOrders = {1}
  ProviderOrders = {2}
  MaxAdjusted = 1
  MaxEdits = 2
  MaxTexts = 1
INVARIANTS
  FrontendTypeOK LookupIsCurrent OnePurchasePerWish WaitsForSomething SubmitsOwnInput
  PagesTellTruth ReviewHasItsImages
PROPERTY CompletesWhenPaid
CHECK_DEADLOCK FALSE
