\* A removal killed before its Save, then restart.
SPECIFICATION Spec
CONSTANTS
  Procs = {p1}
  Imports = {i1}
  Publications = {u1}
  Daemon = Daemon
  NoOne = NoOne
  MayFail = {"crash"}
  MaxFaults = 1
PROPERTY RestartReconciles
