\* Two paths, calls in any order, every text of up to four characters.
CONSTANTS
  p1 = p1
  p2 = p2
  Slots = {p1, p2}
  Null = null
  Letters <- OneLetter
  Arguments <- SomeArguments
  Given <- SomeElements
  MaxText = 4
  MaxElements = 2
SPECIFICATION Spec
SYMMETRY Symmetric
INVARIANTS TypeOK ParseRight EndRight StringCurrent SkipsStems
