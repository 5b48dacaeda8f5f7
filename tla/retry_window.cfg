SPECIFICATION Spec
CHECK_DEADLOCK FALSE
CONSTANTS
  w1 = w1
  w2 = w2
  o1 = o1
  o2 = o2
  Orders = {o1}
  Workers = {w1}
  NoWorker = NoWorker
  NoOrder = NoOrder
  Delay <- LongPrep
  RETRY_AFTER <- MCRetryAfter
  Killable = {}
  LEASE_SECONDS = 1
  MaxAttempts = 2
  TASK_RETRY_DELAY_SECONDS = 1
  TASK_RETRY_MAX_DELAY_SECONDS = 2
  UNSUPPORTED_TASK_RELEASE_DELAY_SECONDS = 1
  RETRY_WINDOW_DEFAULT = 2
  RETRY_WINDOW_MIN = 1
  READY_CHECK_INITIAL_DELAY_SECONDS = 0
  READY_CHECK_INTERVAL_SECONDS = 1
  READY_CHECK_DEADLINE_SECONDS = 1
  DELIVERY_CHECK_INITIAL_DELAY_SECONDS = 0
  DELIVERY_CHECK_INTERVAL_SECONDS = 1
  DELIVERY_CHECK_DEADLINE_SECONDS = 1
  API_LAG = 0
  MaxNow = 4
  MaxRetries = 2
  MaxCrashes = 0
INVARIANT RetryKeepsWindow
