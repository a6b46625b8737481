\* The program's atexit() handler logs.
CONSTANTS
  Main = main
  Workers = {}
  Free = free
  Suites <- SmallSuites
  Verdicts <- AllVerdicts
  AtexitLogs = TRUE
  LineBuffered = FALSE
SPECIFICATION FairSpec
CHECK_DEADLOCK FALSE
PROPERTIES BailOutEnds
