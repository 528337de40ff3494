SPECIFICATION Spec
CONSTANTS
    MaxMsgs = 2
    MaxTurns = 1
    MaxAborts = 1
    BridgeCommands = TRUE
INVARIANT EchoesOwnEntry
INVARIANT DeadRunsHoldNothing
PROPERTY StatusSettles
CHECK_DEADLOCK FALSE
