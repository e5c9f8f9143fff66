-------------------------- MODULE MCLoopbackDaemon --------------------------
(* Small instances of LoopbackDaemon: imports of which one can be asked for  *)
(* again with another source or port, and workloads that publish a port.      *)
EXTENDS LoopbackDaemon

CONSTANTS w1, w2

api == [name |-> "api", port |-> 80, source |-> 8080]
apiMoved == [name |-> "api", port |-> 80, source |-> 9090]
apiElsewhere == [name |-> "api", port |-> 82, source |-> 8080]
web == [name |-> "web", port |-> 81, source |-> 8081]
webThere == [name |-> "web", port |-> 80, source |-> 8081]

OneImport == {api}
MovedImports == {api, apiMoved, web}
MovedPorts == {api, apiElsewhere}
TwoImports == {api, web}
CrossedImports == {api, apiElsewhere, webThere}

PublishNothing == [w \in Workload |-> {}]
PublishWeb == [w \in Workload |-> {81}]
\* The inner port that the import api takes in Webtop.
PublishApi == [w \in Workload |-> {80}]
=============================================================================
