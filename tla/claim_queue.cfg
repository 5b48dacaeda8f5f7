SPECIFICATION Spec
CHECK_DEADLOCK FALSE
CONSTANTS
  Rows = {1, 2}
  LEASE_SECONDS = 0
  Delays = {1, 2}
  Lag = 1
  MaxNow = 5
  MaxReopens = 2
INVARIANT BoundedOvertaking
