CONSTANTS
  Sources = {"tea", "soft_reset", "trace", "smi", "external", "decrementer", "watchdog", "watchdog_reset"}
  HALF = 4
  DEC = 2
  Intervals <- MCIntervals
  PERIOD <- MCPeriod
  TcrWrites <- MCTcrWrites
  TimerWrites <- MCTimerWrites
SPECIFICATION AsyncSpec
INVARIANTS EventsExact UnfedIsReset
PROPERTIES AnsweredOnce WatchdogExact
CHECK_DEADLOCK FALSE
