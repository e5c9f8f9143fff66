SPECIFICATION Spec
CONSTANTS
  Procs = {p1, p2}
  Dirs = {d1}
  Base = 1
  Size = 6
  MaxPort = 13
  Foreign = {}
  Kinds = {"git"}
  Commands = {"up", "exec", "stop"}
  MayFail = {"probe"}
  MaxFaults = 1
INVARIANTS OneBoxEach
