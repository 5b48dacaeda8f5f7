SPECIFICATION DashboardSpec
CHECK_DEADLOCK FALSE
CONSTANTS
  Orders = {o1}
  Workers = {w1}
  NoWorker = NoWorker
  NoOrder = NoOrder
  Delay <- UnitDelay
  RETRY_AFTER <- UnitRetryAfter
  Killable = {"restaurant_check_ready"}
  LEASE_SECONDS = 1
  MaxAttempts = 3
  TASK_RETRY_DELAY_SECONDS = 1
  TASK_RETRY_MAX_DELAY_SECONDS = 2
  UNSUPPORTED_TASK_RELEASE_DELAY_SECONDS = 1
  RETRY_WINDOW_DEFAULT = 2
  RETRY_WINDOW_MIN = 1
  READY_CHECK_INITIAL_DELAY_SECONDS = 0
  READY_CHECK_INTERVAL_SECONDS = 1
  READY_CHECK_DEADLINE_SECONDS = 1
  DELIVERY_CHECK_INITIAL_DELAY_SECONDS = 0
  DELIVERY_CHECK_INTERVAL_SECONDS = 1
  DELIVERY_CHECK_DEADLINE_SECONDS = 1
  API_LAG = 1
  MaxNow = 5
  MaxRetries = 2
  MaxCrashes = 0
  STUCK_ORDER_THRESHOLDS <- Thresholds
  ORDER_DELIVERY_SLA_SECONDS = 5
  LATENCY_WINDOW_SECONDS = 5
  ORDER_DETAIL_EVENT_LIMIT = 9
  Views = {}
INVARIANTS   StageLatencyIsReal
