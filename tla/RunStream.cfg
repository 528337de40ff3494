SPECIFICATION Spec
CONSTANTS
  Calls = {c1, c2}
  MaxTurns = 2
  MaxBlocks = 2
  MaxTokens = 2
  MaxFaults = 1
  Budget = 4
 
INVARIANT ClientsReplayARunsBeginning
INVARIANT FinalPartsAreComplete
