CONSTANTS
  p1 = p1
  p2 = p2
  p3 = p3
  f1 = f1
  f2 = f2
  NoProducer = NoProducer
  Producers <- MCProducers
  Fields <- MCFields
  Ops <- MCOps
  CQ_DEPTH = 3
  ENABLE_PAIR_RETIRE = TRUE
SPECIFICATION FSSpec
SYMMETRY Symmetry
INVARIANTS FlagsExact BranchCrExact
