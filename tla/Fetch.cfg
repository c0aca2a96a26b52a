CONSTANTS
  FETCH_WIDTH = 2
  WORDS = 6
  Targets = {0, 3}
  QUEUE = 2
SPECIFICATION FetchFairSpec
INVARIANTS ObligationExact
PROPERTIES StreamExact FetchProgress
