\* Two imports of one name on different ports, one command killed: violated.
SPECIFICATION Spec
CONSTANTS
  w1 = w1
  w2 = w2
  Workload = {w1}
  Desktop = webtop
  NoProxy = NoProxy
  Import <- MovedPorts
  Publishes <- PublishNothing
  MaxStarts = 1
  MayFail = {"crash"}
  MaxFaults = 1
INVARIANTS OneChildPerKey
