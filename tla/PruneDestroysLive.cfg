SPECIFICATION Spec
CONSTANTS
  Procs = {p1, p2}
  Dirs = {d1}
  Base = 1
  Size = 6
  MaxPort = 13
  Foreign = {}
  Kinds = {"git"}
  Commands = {"up", "prune --force"}
  MayFail = {}
  MaxFaults = 0
PROPERTIES PrunesMissing
