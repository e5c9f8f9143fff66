SPECIFICATION Spec
CONSTANTS
  Procs = {p1, p2}
  Order <- Both
  Texts <- Few
  Overlapping = FALSE
  MayFail = {"io", "kill", "edit"}
  MaxFaults = 2
  p1 = p1
  p2 = p2
INVARIANTS TypeOK
PROPERTIES AllOrNothing SuccessMeansDone ProseKept
CHECK_DEADLOCK FALSE
SYMMETRY Symmetry
