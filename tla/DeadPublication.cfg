
SPECIFICATION FairSpec
CONSTANTS
  Commands = {"publish"}
  Ports = {"3000", "3001"}
  MaxRoutes = 3
  MayFail = {"bind", "accept", "close"}
  MaxFaults = 1

PROPERTIES BridgeServes
\* A server ends, and nothing here starts it again.
CHECK_DEADLOCK FALSE
