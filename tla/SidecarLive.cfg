SPECIFICATION FairSpec
CONSTANTS
  w1 = w1
  w2 = w2
  Workload = {w1}
  Desktop = webtop
  NoProxy = NoProxy
  Import <- OneImport
  Publishes <- PublishApi
  MaxStarts = 2
  MayFail = {"snapshot", "probe", "stop", "start", "exit", "stream", "bind", "free",
             "save", "crash", "outage"}
  MaxFaults = 1
PROPERTIES Converges RoutesConverge
