SPECIFICATION SessionSpec
CONSTANTS
  Models = {"openrouter", "openai", "gateway", "claude", "gemini", "vertex"}
  MaxMessages = 4
 
INVARIANT NothingIsLost
CHECK_DEADLOCK FALSE
