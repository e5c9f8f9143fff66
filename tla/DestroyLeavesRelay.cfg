\* A first import whose activation and rollback fail, then destroy.
SPECIFICATION Spec
CONSTANTS
  Procs = {p1}
  Imports = {i1}
  Publications = {u1}
  Daemon = Daemon
  NoOne = NoOne
  MayFail = {"apply", "unstop"}
  MaxFaults = 2
PROPERTY DestroyStopsRelay
