CONSTANTS
  CQ_DEPTH = 3
  GENERATIONS = 2
  ENABLE_PAIR_RETIRE = TRUE
  ENABLE_PIVOT_RECOVERY = FALSE
  ENABLE_BRANCH_PIVOT = TRUE
  Offers <- BranchOffers
  MAX_INFLIGHT = 2
SPECIFICATION FairSpec
INVARIANT ResultOwed
PROPERTY EntryLeaves
