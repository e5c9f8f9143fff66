\* Up to three failures, none of the files and no timeout of a rollback.
SPECIFICATION Spec
CONSTANTS
  Procs = {p1, p2}
  Imports = {i1, i2}
  Publications = {u1}
  Daemon = Daemon
  NoOne = NoOne
  MayFail = {"list", "save", "relay", "unstop", "probe", "bridge", "apply"}
  MaxFaults = 3
SYMMETRY Symmetry
INVARIANTS FailedRollbackDegrades ReadyNotDegraded
PROPERTIES DegradedSticks LedgerSpec
