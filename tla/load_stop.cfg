SPECIFICATION Spec
CHECK_DEADLOCK FALSE
CONSTANTS
  NoCap = NoCap
  Closer = Closer
  Operators = {op1}
  Caps = {2}
  Rates = {1}
  MaxInflight = 1
  MaxRuns = 2
  MaxSends = 1
  MaxUpdates = 0
PROPERTIES StoppedProducerSendsNothing
