SPECIFICATION FairSpec
CONSTANTS
  NRuns = 2
  Callers = {1}
  MaxCalls = 2
  MaxFaults = 1
INVARIANT LastCallsAreAnsweredOnce
PROPERTY CompleteStaysComplete
PROPERTY EveryOwedAnswerEnds
CHECK_DEADLOCK FALSE
