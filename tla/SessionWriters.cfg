CONSTANTS
    Writers = {run, other}
    MaxRows = 4
SPECIFICATION Spec
INVARIANT TypeOK
INVARIANT TreeOK
INVARIANT FinishedAppendsStay
INVARIANT BranchViewsAreWhole
SYMMETRY WriterSymmetry
CHECK_DEADLOCK FALSE
