\* Port files that can neither be written nor restored.  The other rollback that
\* is not recorded takes longer than its 15 seconds: MayFail = {"bridge", "timeout"}.
SPECIFICATION Spec
CONSTANTS
  Procs = {p1}
  Imports = {i1}
  Publications = {u1}
  Daemon = Daemon
  NoOne = NoOne
  MayFail = {"write"}
  MaxFaults = 2
INVARIANT FailedRollbackDegrades
