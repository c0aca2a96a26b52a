CONSTANTS
  Producers = {p1, p2, p3}
  Regs = {r1, r2}
  NoProducer = NoProducer
  GPR_RENAME_DEPTH = 3
  CQ_DEPTH = 3
SPECIFICATION RSSpec
SYMMETRY Symmetry
INVARIANTS RenameExact RebuildsAgree
