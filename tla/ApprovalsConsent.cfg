SPECIFICATION ConsentSpec
CONSTANTS
    NumCalls = 2
    NumIds = 1
    MaxAnswers = 2
    MaxEvents = 1
INVARIANT PendingIsWaiting
INVARIANT ProfileNeedsConsent
INVARIANT RememberedWasAnswered
PROPERTY RequestsEnd
CHECK_DEADLOCK FALSE
