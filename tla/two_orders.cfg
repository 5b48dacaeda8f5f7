SPECIFICATION DashboardSpec
SYMMETRY BothSymmetries
CHECK_DEADLOCK FALSE
CONSTANTS
  Orders = {o1, o2}
  Workers = {w1, w2}
  NoWorker = NoWorker
  NoOrder = NoOrder
  Delay <- NoDelay
  RETRY_AFTER <- UnitRetryAfter
  Killable = {}
  LEASE_SECONDS = 1
  MaxAttempts = 1
  TASK_RETRY_DELAY_SECONDS = 1
  TASK_RETRY_MAX_DELAY_SECONDS = 2
  UNSUPPORTED_TASK_RELEASE_DELAY_SECONDS = 1
  RETRY_WINDOW_DEFAULT = 2
  RETRY_WINDOW_MIN = 1
  READY_CHECK_INITIAL_DELAY_SECONDS = 0
  READY_CHECK_INTERVAL_SECONDS = 1
  READY_CHECK_DEADLINE_SECONDS = 1
  DELIVERY_CHECK_INITIAL_DELAY_SECONDS = 0
  DELIVERY_CHECK_INTERVAL_SECONDS = 1
  DELIVERY_CHECK_DEADLINE_SECONDS = 1
  API_LAG = 0
  MaxNow = 0
  MaxRetries = 0
  MaxCrashes = 0
  STUCK_ORDER_THRESHOLDS <- Thresholds
  ORDER_DELIVERY_SLA_SECONDS = 5
  LATENCY_WINDOW_SECONDS = 5
  ORDER_DETAIL_EVENT_LIMIT = 9
  Views = {"detail", "overview"}
INVARIANTS DetailIsCovered OverviewAddsUp
