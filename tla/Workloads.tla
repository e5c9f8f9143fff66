------------------------------ MODULE Workloads ------------------------------
(***************************************************************************)
(* The network namespaces a box's sidecar works in: the workload containers *)
(* of the inner Docker daemon, the Webtop desktop, the ports their own      *)
(* processes hold on localhost, and the import proxies and automatic routes *)
(* the sidecar holds there.                                                 *)
(*                                                                          *)
(* A container keeps its ID when it restarts and gets a new PID and a new   *)
(* network namespace.  A proxy process that listens in the namespace of an  *)
(* earlier PID keeps that namespace alive, and nobody reaches it any more.  *)
(*                                                                          *)
(* Abstracted: the two addresses of a listener (127.0.0.1 and ::1) are one, *)
(* PIDs are numbers of starts, connections and bytes are left out.          *)
(***************************************************************************)
EXTENDS Naturals, FiniteSets

CONSTANTS
  Workload,       \* containers of the inner Docker daemon
  Desktop,        \* the Webtop namespace, which the sidecar shares
  Import,         \* the import mappings that occur: [name, port, source]
  Publishes,      \* the inner host ports each workload publishes
  MaxStarts,      \* how often a workload starts
  MayFail,        \* the kinds of failure that occur, a subset of FaultKinds
  MaxFaults       \* how many of them occur in a behaviour

\* "snapshot" list or inspect of containers, or read of ports.json
\* "probe"    bind error, not a conflict
\* "stop"     docker stop of a workload;      "start" of a proxy process
\* "exit"     of a proxy process by itself;   "stream" end of the event stream
\* "bind"     a process takes a local port;   "free"   or gives it back
\* "save"     of state.json by the command;   "crash"  kill of the command
\* "outage"   of the sidecar's container
FaultKinds == {"snapshot", "probe", "stop", "start", "exit", "stream", "bind",
               "free", "save", "crash", "outage"}

Target == Workload \cup {Desktop}
Port == {m.port : m \in Import} \cup UNION {Publishes[w] : w \in Workload}

ASSUME WorkloadAssumption ==
  /\ Desktop \notin Workload
  /\ MaxStarts \in Nat \ {0} /\ MaxFaults \in Nat
  /\ MayFail \subseteq FaultKinds

VARIABLES
  starts,         \* starts of a target so far: the number of its current PID
  running,        \* the targets that run
  held,           \* <<target, port>> held by a process of the target itself
  proxies,        \* the import-proxy processes that run
  routes,         \* the Webtop ports held by automatic routes
  faults          \* failures so far

namespaces == <<starts, running, held>>
workloads == <<namespaces, proxies, routes, faults>>

\* What one proxy is for: a mapping in the namespace of a target's PID.
Spec4Proxy == [cont : Target, pid : 0 .. MaxStarts, map : Import]

Alive(s) == s.cont \in running /\ s.pid = starts[s.cont]
Proxied(c, p) == \E s \in proxies : s.cont = c /\ Alive(s) /\ s.map.port = p
Taken(c, p) ==
  \/ <<c, p>> \in held
  \/ c = Desktop /\ p \in routes
  \/ Proxied(c, p)

Fault(k) == k \in MayFail /\ faults < MaxFaults /\ faults' = faults + 1
NoFault == faults' = faults

-----------------------------------------------------------------------------
\* What happens in the namespaces by itself.

Starting(c) ==
  /\ c \notin running /\ starts[c] < MaxStarts
  /\ starts' = [starts EXCEPT ![c] = @ + 1]
  /\ running' = running \cup {c}
  /\ UNCHANGED <<held, proxies, routes, faults>>

\* The end of a container: its own listeners go, the proxies stay.
Gone(c) ==
  /\ running' = running \ {c}
  /\ held' = {h \in held : h[1] # c}
  /\ UNCHANGED starts

Dying(c) == c \in running /\ Gone(c) /\ UNCHANGED <<proxies, routes, faults>>

Binds(c, p) ==
  /\ c \in running /\ ~Taken(c, p) /\ Fault("bind")
  /\ held' = held \cup {<<c, p>>}
  /\ UNCHANGED <<starts, running, proxies, routes>>
Frees(h) ==
  /\ h \in held /\ Fault("free") /\ held' = held \ {h}
  /\ UNCHANGED <<starts, running, proxies, routes>>

ProxyExits(s) ==
  /\ s \in proxies /\ Fault("exit") /\ proxies' = proxies \ {s}
  /\ UNCHANGED <<namespaces, routes>>

WorkloadsInit ==
  /\ starts = [c \in Target |-> IF c = Desktop THEN 1 ELSE 0]
  /\ running = {Desktop} /\ held = {}
  /\ proxies = {} /\ routes = {} /\ faults = 0

WorkloadsType ==
  /\ starts \in [Target -> 0 .. MaxStarts]
  /\ running \subseteq Target /\ Desktop \in running
  /\ held \subseteq Target \X Port
  /\ proxies \subseteq Spec4Proxy
  /\ routes \subseteq Port
  /\ faults \in 0 .. MaxFaults
=============================================================================
