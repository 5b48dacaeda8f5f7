SPECIFICATION Spec
CHECK_DEADLOCK FALSE
CONSTANTS
  NoCap = NoCap
  Closer = Closer
  Operators = {op1}
  Caps = {2, NoCap}
  Rates = {1, 2}
  MaxInflight = 1
  MaxRuns = 2
  MaxSends = 1
  MaxUpdates = 1
INVARIANTS TypeOK NoStaleSleep ClientOutlivesRequests SlotsAccounted CountersAddUp CapRespected
PROPERTIES StopReturnsFinalCounters StopReturns CappedRunEnds
