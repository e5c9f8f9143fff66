\* Up to three publications on two ports, so that some share one; every command.
SPECIFICATION FairSpec
CONSTANTS
  Commands = {"publish", "dns", "sidecar"}
  Ports = {"3000", "3001"}
  MaxRoutes = 3
  MayFail = {"bind", "accept", "close"}
  MaxFaults = 2
INVARIANT EndsClean
PROPERTY EndsWhenDue
\* A server ends, and nothing here starts it again.
CHECK_DEADLOCK FALSE
