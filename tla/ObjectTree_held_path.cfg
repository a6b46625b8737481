\* A body adds the suite being run to another one.
CONSTANTS
  s1 = s1
  s2 = s2
  s3 = s3
  c1 = c1
  c2 = c2
  a = a
  b = b
  v1 = v1
  v2 = v2
  None = none
  Suites = {s1, s2}
  Cases = {c1}
  Names = {a, b}
  Shared = {}
  Values = {}
  MaxHeld = 1
  Cycles = FALSE
  BodyAdds = TRUE
SPECIFICATION Spec
SYMMETRY Symmetric
INVARIANTS HeldPathAlive
