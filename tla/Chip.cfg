CONSTANTS
  BEATS = 2
  Asks <- ShareAsks
  OTHERS = FALSE
  MISTAKES = FALSE
  SLOW = TRUE
  RETRIES = 0
  RETURN_IFETCH_ERROR = FALSE
  Tags = {1}
  Sources = {"mcp", "soft_reset", "decrementer"}
SPECIFICATION ChipSpec
PROPERTIES RouterExact AccessServed RequestsAnswered
CHECK_DEADLOCK FALSE
