SPECIFICATION PerfSpec
CONSTANTS
  Programs <- Frame
  MulCycles = 3
  DivCycles = 9
INVARIANT LoadWaitsForStore
