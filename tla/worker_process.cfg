SPECIFICATION Spec
CONSTANTS
  HEARTBEAT_INTERVAL_SECONDS = 10
  ACTIVE_WORKER_THRESHOLD_SECONDS = 30
  TASK_POLL_INITIAL_IDLE_SECONDS = 1
  TASK_POLL_MAX_IDLE_SECONDS = 5
  MaxWrite = 3
  MaxWork = 2
  MaxMisses = 1
INVARIANTS TypeOK PoolOutlivesWork 
PROPERTIES StopEndsProcess
