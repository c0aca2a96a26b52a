CONSTANTS
  BEATS = 2
  Asks <- OrderAsks
  OTHERS = TRUE
  MISTAKES = TRUE
  SLOW = FALSE
  RETRIES = 1
SPECIFICATION BiuSpec
INVARIANTS TenuresExact
PROPERTIES HandsBack
