\* One failure of any kind but of a box removal; no kills, no outages.
SPECIFICATION Spec
CONSTANTS
  Procs = {p1, p2}
  Imports = {i1, i2}
  Publications = {u1}
  Daemon = Daemon
  NoOne = NoOne
  MayFail = {"list", "save", "write", "docker", "relay", "unstop", "swallow",
             "probe", "bridge", "apply", "conn", "timeout"}
  MaxFaults = 1
SYMMETRY Symmetry
INVARIANTS CandidateHidden FilesAgree AppliedOrUndone
PROPERTY UpRestores
