SPECIFICATION Spec
CONSTANTS
  Procs = {p1, p2}
  Dirs = {d1}
  Base = 1
  Size = 6
  MaxPort = 13
  Foreign = {}
  Kinds = {"git"}
  Commands = {"up", "exec", "run", "destroy"}
  MayFail = {"list", "docker", "kill"}
  MaxFaults = 1
PROPERTIES ReturnsChildCode
