SPECIFICATION FairSpec
CONSTANTS
  Requests = {1, 2, 3}
  Transports = {"auto"}
  MaxOverlap = 2
  MaxRetries = 1
  MaxFaults = 1
INVARIANT ServerHasTheInput
INVARIANT OneRequestAConnection
INVARIANT StreamStartsAndEndsOnce
PROPERTY RequestsEnd
CHECK_DEADLOCK FALSE
