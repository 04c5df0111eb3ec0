\* One coin order and two threads while no replay window is confirmed, which
\* is what an unset LUNAKEY_IDEMPOTENCY_WINDOW_SECONDS means.
SPECIFICATION Spec
CONSTANTS
  Orders = {o1}
  CoinOrders = {o1}
  Workers = {w1, w2}
  MaxAttempts = 2
  WindowSettings = {FALSE}
  MaxDeliveries = 2
  MaxLate = 2
  MaxRestarts = 2
  None = None
SYMMETRY Threads
INVARIANTS TypeOK SentOnceAtATime RejectedMeansUntouched
