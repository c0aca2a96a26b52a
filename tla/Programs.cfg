SPECIFICATION ProgramsSpec
CONSTANTS
  Width = 16
  LeVariants = {"pid7v", "pid6", "603", "602"}
  Layouts = {"core", "chip"}
  Offsets = {0, 1, 2, 3, 4, 5, 6, 7, 8, 9, 10, 11, 12, 13, 14, 15}
  FpBuilds = {"machine check", "chip"}
  FormsTried = 17
  MaxFlight = 2
INVARIANTS
  ControlExact
  LittleEndianExact
  FpProgramExact
PROPERTIES
  OraclesAgree
  EveryProgramStops
