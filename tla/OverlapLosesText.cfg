SPECIFICATION Spec
CONSTANTS
  Procs = {p1, p2}
  Order <- One
  Texts <- Few
  Overlapping = TRUE
  MayFail = {"edit"}
  MaxFaults = 1
  p1 = p1
  p2 = p2
PROPERTIES ProseKept
SYMMETRY Symmetry
CHECK_DEADLOCK FALSE
