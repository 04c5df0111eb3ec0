\* A coin order or one paid by transfer, whose payments lapse, are renewed and
\* are paid late, and two threads with a confirmed replay window: the thread
\* that lost its lease and the one that took it over both have requests out.
SPECIFICATION Spec
CONSTANTS
  Orders = {o1, o2}
  CoinOrders = {o1}
  Workers = {w1, w2}
  MaxAttempts = 2
  WindowSettings = {TRUE}
  MaxDeliveries = 1
  MaxLate = 0
  MaxRestarts = 1
  None = None
SYMMETRY Threads
CONSTRAINT OneOrder
INVARIANTS OrderAndJobAgree EvidenceAccounted CoinRefundIsFinal RefundedOnce FundedShows
PROPERTIES KeepsPromise
