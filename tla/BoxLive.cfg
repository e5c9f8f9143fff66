\* Liveness with two commands and two failures of any kind: a kill, an outage and a box
\* removal that fails included.
SPECIFICATION FairSpec
CONSTANTS
  Procs = {p1, p2}
  Imports = {i1}
  Publications = {u1}
  Daemon = Daemon
  NoOne = NoOne
  MayFail = {"list", "save", "write", "docker", "relay", "unstop", "swallow",
             "probe", "bridge", "apply", "conn", "rmdir", "timeout", "crash",
             "outage"}
  MaxFaults = 2
INVARIANTS TypeOK LocksHeld NoLostUpdate
PROPERTIES CommandsEnd ProxiesConverge
