SPECIFICATION Spec
CHECK_DEADLOCK FALSE
CONSTANTS
  Orders = {o1}
  Workers = {w1, w2}
  Nobody = Nobody
  MaxAttempts = 2
  MaxFaults = 2
  MaxRetries = 1
INVARIANTS TypeOK
PROPERTIES UntimedImplementsLifecycle OpenWorkEnds EveryOrderSettles
