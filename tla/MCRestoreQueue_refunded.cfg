SPECIFICATION FairSpec
CONSTANTS
  Orders = {o1}
  Visitors = {}
  s1 = s1
  s2 = s2
  Slots <- JustOne
  FirstSlots <- JustOne
  NONE = NONE
  MAX_QUEUE_SIZE = 1
  MaxMishaps = 0
PROPERTIES
  RefundedNeverRestored
CHECK_DEADLOCK FALSE
