\* The general refund endpoint while a thread waits for the provider.
SPECIFICATION Spec
CONSTANTS
  Orders = {o1}
  CoinOrders = {o1}
  Workers = {w1}
  MaxAttempts = 1
  WindowSettings = {FALSE}
  MaxDeliveries = 1
  MaxLate = 0
  MaxRestarts = 0
  None = None
INVARIANTS RefundAwaitsOutcome
