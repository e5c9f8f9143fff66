SPECIFICATION Spec
CONSTANTS
  b1 = b1
  n1 = n1
  b2 = b2
  b3 = b3
  Box = {b1, b2, b3}
  Selections <- PairAndAll
  Names = {n1}
  NoName = NoName
  NoRecord = NoRecord
  MayFail = {"list", "save", "docker", "service", "crash", "prune"}
  MaxFaults = 1
INVARIANTS TypeOK Isolated WellFormed
PROPERTIES UpReattaches ReadyIsAttached FailureKept
