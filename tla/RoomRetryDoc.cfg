SPECIFICATION Spec
CONSTANTS
    MaxMsgs = 1
    MaxTurns = 0
    MaxAborts = 0
    BridgeCommands = FALSE
INVARIANTS
    RetryAsksProvider
CHECK_DEADLOCK FALSE
