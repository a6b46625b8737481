\* An unexpected warning logged through g_log_structured().
CONSTANTS
  Main = main
  NoCase = nocase
  Free = free
  w1 = w1
  c1 = c1
  c2 = c2
  Workers = {}
  Cases = {c1, c2}
  BodyMessages <- StructuredMessages
  WorkerMessages = {}
  DestroyMessages = {}
  DestroyAsserts = FALSE
  Patterns = {}
  Bodies <- TwoBodies
  AlwaysFatal = {}
  Verbose = FALSE
  Quiet = FALSE
  KeepGoing = TRUE
  FatalAsserts = FALSE
  MaxLogs = 1
  MaxExpect = 0
SPECIFICATION Spec
SYMMETRY Symmetric
INVARIANTS WarningOnlyFailsTest
