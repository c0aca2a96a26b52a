CONSTANTS
  CQ_DEPTH = 3
  GENERATIONS = 2
  ENABLE_PAIR_RETIRE = TRUE
  ENABLE_PIVOT_RECOVERY = TRUE
  ENABLE_BRANCH_PIVOT = TRUE
  Offers <- PairOffers
  MAX_INFLIGHT = 2
SPECIFICATION SysSpec
INVARIANTS RingSound
PROPERTY ImplementsProgramQueue
