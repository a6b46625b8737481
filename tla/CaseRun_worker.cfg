\* An unexpected warning on a thread other than the one running the test.
CONSTANTS
  Main = main
  NoCase = nocase
  Free = free
  w1 = w1
  c1 = c1
  c2 = c2
  Workers = {w1}
  Cases = {c1, c2}
  BodyMessages = {}
  WorkerMessages <- TwoMessages
  DestroyMessages = {}
  DestroyAsserts = FALSE
  Patterns = {}
  Bodies <- TwoBodies
  AlwaysFatal = {}
  Verbose = FALSE
  Quiet = FALSE
  KeepGoing = TRUE
  FatalAsserts = FALSE
  MaxLogs = 1
  MaxExpect = 0
SPECIFICATION Spec
SYMMETRY Symmetric
INVARIANTS WorkerWarningDefined
