\* stdout is a pipe and a message is fatal.
CONSTANTS
  Main = main
  Workers = {}
  Free = free
  Suites <- SmallSuites
  Verdicts <- AllVerdicts
  AtexitLogs = FALSE
  LineBuffered = FALSE
SPECIFICATION Spec
INVARIANTS TrapIsSignalled
