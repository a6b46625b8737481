\* Every kind of message in the body, two overlapping expectations, a worker whose
\* messages neither fail the test nor are compared with expectations, -k.
CONSTANTS
  Main = main
  NoCase = nocase
  Free = free
  w1 = w1
  c1 = c1
  c2 = c2
  Workers = {w1}
  Cases = {c1, c2}
  BodyMessages <- AllMessages
  WorkerMessages <- CalmMessages
  DestroyMessages <- CalmMessages
  DestroyAsserts = FALSE
  Patterns <- OverlappingPatterns
  Bodies <- TwoBodies
  AlwaysFatal = {}
  Verbose = FALSE
  Quiet = FALSE
  KeepGoing = TRUE
  FatalAsserts = FALSE
  MaxLogs = 3
  MaxExpect = 2
SPECIFICATION Spec
SYMMETRY Symmetric
INVARIANTS NoInternalFailure CountsAnswer VerdictHonest
