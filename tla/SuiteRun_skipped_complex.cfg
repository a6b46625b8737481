\* A complex case left out by -s.
CONSTANTS
  Main = main
  Workers = {}
  Free = free
  Suites <- ComplexLeftOut
  Verdicts <- AllVerdicts
  AtexitLogs = FALSE
  LineBuffered = FALSE
SPECIFICATION Spec
INVARIANTS PlanAlwaysKept
