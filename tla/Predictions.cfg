SPECIFICATION PredictionsSpec
CONSTANTS
  B32 <- MCNarrow
  B64 <- MCWide
  IntWidth = 6
  PacketOps <- MCPacketOps
  Insns <- MCInsns
  StartFpscr <- MCStart
  MaxInsns = 2
  Width = 12
  MaxSteps = 40
  Programs <- Streams
  MulCycles = 3
  DivCycles = 9
  Images <- Traced
  DispatchWidth = 2
  MaxLine = 2
  MaxCycle = 4
INVARIANTS
  RoundingExact
  FpOraclesAgree
  SummaryExact
  SelftestExact
  ScheduleLegal
  CheckerExact
PROPERTIES
  StatusDiscipline
  MachineStepExact
CHECK_DEADLOCK FALSE
