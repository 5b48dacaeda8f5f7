SPECIFICATION Spec
CHECK_DEADLOCK FALSE
CONSTANTS
  r1 = r1
  r2 = r2
  r3 = r3
  k1 = k1
  k2 = k2
  plain = plain
  spaced = spaced
  other = other
  missing = missing
  Requests = {r1, r2, r3}
  NoRequest = NoRequest
  Headers = {plain, spaced, other, missing}
  strip <- MCStrip
  Keys = {k1, k2}
  Blank = Blank
  Bodies = {"pizza", "sushi"}
  PoolSize = 2
  MaxFaults = 2
INVARIANTS OneOrderPerKey WholeOrders PoolBalanced
PROPERTIES CreateIfAbsent EveryRequestAnswered
