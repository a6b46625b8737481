\* A worker logs anything while two cases run.
CONSTANTS
  Main = main
  NoCase = nocase
  Free = free
  w1 = w1
  c1 = c1
  c2 = c2
  Workers = {w1}
  Cases = {c1, c2}
  BodyMessages <- SomeMessages
  WorkerMessages <- SomeMessages
  DestroyMessages <- OneMessage
  DestroyAsserts = TRUE
  Patterns <- OnePattern
  Bodies <- TwoBodies
  AlwaysFatal = {}
  Verbose = FALSE
  Quiet = FALSE
  KeepGoing = TRUE
  FatalAsserts = FALSE
  MaxLogs = 2
  MaxExpect = 2
SPECIFICATION FairSpec
INVARIANTS TypeOK HookTargetAlive LockExact DepthBalanced VerdictHonest CountsAnswer
PROPERTIES VerdictFinal ScanStable ImplementsLife CaseEnds LogReturns
