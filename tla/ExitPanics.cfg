SPECIFICATION Spec
CONSTANTS
  w1 = w1
  w2 = w2
  Workload = {w1}
  Desktop = webtop
  NoProxy = NoProxy
  Import <- OneImport
  Publishes <- PublishNothing
  MaxStarts = 2
  MayFail = {"exit"}
  MaxFaults = 1
INVARIANTS ExitSurvived
