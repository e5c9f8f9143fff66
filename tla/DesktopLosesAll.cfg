SPECIFICATION Spec
CONSTANTS
  w1 = w1
  w2 = w2
  Workload = {}
  Desktop = webtop
  NoProxy = NoProxy
  Import <- TwoImports
  Publishes <- PublishNothing
  MaxStarts = 2
  MayFail = {"bind"}
  MaxFaults = 1
INVARIANTS DesktopKeepsOthers
