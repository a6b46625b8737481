\* Cascades of finalizers and signals travelling down the tree, with and
\* without cycles.
CONSTANTS
  s1 = s1
  s2 = s2
  s3 = s3
  c1 = c1
  c2 = c2
  a = a
  b = b
  v1 = v1
  v2 = v2
  None = none
  Suites = {s1, s2}
  Cases = {c1}
  Names = {a, b}
  Shared = {s1}
  Values = {v1, v2}
  MaxHeld = 1
  Cycles = TRUE
  BodyAdds = TRUE
SPECIFICATION FairSpec
INVARIANTS RefsExact
PROPERTIES CallsReturn
