SPECIFICATION Spec
CHECK_DEADLOCK FALSE
CONSTANTS
  NoTx = NoTx
  Workers = {w1, w2}
  Cancels = {c1}
  Retries = {r1}
  MaxExpiries = 1
  MaxFaults = 1
INVARIANTS TypeOK OwnedOrderIsCurrent
PROPERTIES  EveryTransactionEnds
