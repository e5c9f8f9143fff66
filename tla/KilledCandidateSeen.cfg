\* A port command killed after it has written its candidate.
SPECIFICATION Spec
CONSTANTS
  Procs = {p1}
  Imports = {i1}
  Publications = {u1}
  Daemon = Daemon
  NoOne = NoOne
  MayFail = {"crash"}
  MaxFaults = 1
INVARIANT CandidateHidden
