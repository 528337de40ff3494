SPECIFICATION Spec
CONSTANTS
    AllAtOnce <- OneByOne
    Parallel = FALSE
    Racy = FALSE
    Faults = FALSE
    MaxCalls = 2
    MaxMsgs = 1
    MaxTurns = 2
    MaxNotes = 1
    MaxRuns = 3
    MaxAborts = 1
 
 
 
INVARIANT RequestEndsWithInput
CHECK_DEADLOCK FALSE
