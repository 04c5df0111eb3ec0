\* A coin order, whatever the setting of the window, a restart included.
SPECIFICATION FairSpec
CONSTANTS
  Orders = {o1}
  CoinOrders = {o1}
  Workers = {w1}
  MaxAttempts = 2
  WindowSettings = {TRUE, FALSE}
  MaxDeliveries = 1
  MaxLate = 0
  MaxRestarts = 1
  None = None
PROPERTIES PaidOrderSettles
