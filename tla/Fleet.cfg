SPECIFICATION Spec
CONSTANTS
  Procs = {p1, p2}
  Dirs = {d1, d2}
  Base = 1
  Size = 6
  MaxPort = 13
  Foreign = {3}
  Kinds = {"git"}
  Commands = {"up", "run", "exec", "stop", "restart", "destroy", "list", "logs", "port", "status", "prune --force"}
  MayFail = {"list", "docker", "kill", "probe"}
  MaxFaults = 1
INVARIANTS TypeOK BlocksDisjoint Recorded
PROPERTIES KeepsBlock
SYMMETRY Symmetry
