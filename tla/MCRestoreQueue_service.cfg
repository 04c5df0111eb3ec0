SPECIFICATION FairSpec
CONSTANTS
  Orders = {o1}
  Visitors = {v1, v2}
  s1 = s1
  s2 = s2
  Slots <- PoolOfTwo
  FirstSlots <- JustOne
  NONE = NONE
  MAX_QUEUE_SIZE = 2
  MaxMishaps = 1
INVARIANTS
  TypeOK
  RowsHeldOnce
  NeverStranded
  EndsTrue
PROPERTIES
  OrderSettles
CHECK_DEADLOCK FALSE
