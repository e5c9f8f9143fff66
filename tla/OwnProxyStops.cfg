SPECIFICATION Spec
CONSTANTS
  w1 = w1
  w2 = w2
  Workload = {w1}
  Desktop = webtop
  NoProxy = NoProxy
  Import <- MovedImports
  Publishes <- PublishNothing
  MaxStarts = 1
  MayFail = {"crash"}
  MaxFaults = 1
PROPERTIES OnlyOwnersStopped
