\* A first publication whose activation and rollback fail, then up.
SPECIFICATION Spec
CONSTANTS
  Procs = {p1}
  Imports = {i1}
  Publications = {u1}
  Daemon = Daemon
  NoOne = NoOne
  MayFail = {"save", "bridge"}
  MaxFaults = 2
PROPERTY UpReconciles
