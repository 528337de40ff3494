SPECIFICATION Spec
CONSTANTS
  Apis = {"completions", "responses", "anthropic", "google"}
  MaxItems = 3
  MaxChunks = 4
INVARIANT ReaderHasTheReply
INVARIANT CutOffIsAnError
CHECK_DEADLOCK FALSE
