\* From gtu_init() to the end, with two workers that may log and bail out;
\* every kind of case.
CONSTANTS
  Main = main
  Workers = {w1, w2}
  Free = free
  Suites <- SmallSuites
  Verdicts <- AllVerdicts
  AtexitLogs = FALSE
  LineBuffered = FALSE
  CommandLines <- SomeLines
  DebugFatal = {}
SPECIFICATION StartFairSpec
INVARIANTS TypeOK PlanKept OnePlan PlanFirst StatusTellsFailure SummaryHonest
INVARIANTS BodiesOnce RefusedRunsNothing TrapSaysBailOut
PROPERTIES SilentAfterBailOut AbandonedAfterFailure ImplementsStream RunEnds
