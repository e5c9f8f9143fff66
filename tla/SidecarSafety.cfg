SPECIFICATION Spec
CONSTANTS
  w1 = w1
  w2 = w2
  Workload = {w1}
  Desktop = webtop
  NoProxy = NoProxy
  Import <- CrossedImports
  Publishes <- PublishApi
  MaxStarts = 2
  MayFail = {"probe", "stop", "start", "exit", "stream", "bind", "free",
             "save", "outage"}
  MaxFaults = 1
INVARIANTS TypeOK OwnedProxies
PROPERTIES RefusedLeavesNothing OnlyOwnersStopped AppliedExplained
