SPECIFICATION Spec
CONSTANTS
    AllAtOnce <- SteerAll
    Parallel = TRUE
    Racy = FALSE
    Faults = TRUE
    MaxCalls = 1
    MaxMsgs = 3
    MaxTurns = 1
    MaxNotes = 0
    MaxRuns = 2
    MaxAborts = 1
 
 
 
PROPERTY EveryCallReturns
CHECK_DEADLOCK FALSE
